---- MODULE Spec2Model ----
(***************************************************************************)
(* The authenticated request executor of the Bitbucket CLI (package api):  *)
(* Client.doRequest with its refresh-on-401 retry, Client.refreshToken,    *)
(* Client.setAuth, the public operations Get, GetRaw, Post, PostForm, Put  *)
(* and Delete, and handleResponse; with the collaborators they call:       *)
(* auth.RefreshAccessToken (token endpoint) and config.SaveToken (the      *)
(* credential store).                                                      *)
(*                                                                         *)
(* The source tree holds three versions of the client:                     *)
(*   "client"     src/internal/api/client.go      buffered body, Bearer    *)
(*                only, no auth-method tag, refresh token preserved        *)
(*   "tagged"     src/unnamed/part_002:1-244      buffered body, tag       *)
(*                "oauth"/"token", refresh token preserved                 *)
(*   "unbuffered" src/unnamed/part_002:246-445    body reader handed to    *)
(*                both attempts, tag, refresh token not preserved          *)
(* The variable build says which one runs; it never changes.               *)
(*                                                                         *)
(* The server, the token endpoint and the file system are the environment: *)
(* their answers are drawn with \E in the actions.  Access tokens are      *)
(* numbered in issue order: the token endpoint issues a new, non-empty     *)
(* access token on every successful refresh grant (variable issued).       *)
(*                                                                         *)
(* Outside the client, each under a specification of its own: the          *)
(* credential store commands (config.LoadToken, SaveToken, ClearToken and   *)
(* bb auth logout; SpecStore), cmdutil.ResolveBody (SpecBody) and           *)
(* output.Truncate (SpecTruncate).                                          *)
(***************************************************************************)
EXTENDS Integers, Sequences, FiniteSets, TLC

(* ------------------------------ bounds --------------------------------- *)

\* Longest request body, in bytes.
MaxBodyLen == 2

\* Calls of a public operation on one client.
MaxCalls == 2

(* ------------------------- program constants --------------------------- *)

StatusOK == 200
StatusNoContent == 204
StatusUnauthorized == 401

BitbucketAPI == "https://api.bitbucket.org/2.0"
AuthMethodOAuth == "oauth"
AuthMethodToken == "token"

(* --------------------------- input domains ----------------------------- *)

Builds == {"client", "tagged", "unbuffered"}

Bytes == {1, 2}

RECURSIVE SeqsUpTo(_)
SeqsUpTo(n) ==
    IF n = 0 THEN {<<>>}
    ELSE LET shorter == SeqsUpTo(n - 1)
         IN  shorter \cup {Append(s, b) : s \in {t \in shorter : Len(t) = n - 1}, b \in Bytes}

Bodies == SeqsUpTo(MaxBodyLen)

Paths == {"/user"}
BadURL == "://bad"
RawURLs == {"https://api.bitbucket.org/2.0/user?page=2", BadURL}

\* Tags a stored credential can hold: absent (the logins that store the
\* token as Login returned it, and every refresh but that of part_008), "oauth"
\* (part_008:230, 304, 459) and "token" (auth.go:158, part_008:168, 263).
Tags == {"", AuthMethodOAuth, AuthMethodToken}

Statuses == {StatusOK, StatusNoContent, StatusUnauthorized, 403, 500}
RespBodies == {"", "{}"}

(* ------------------------------ data ----------------------------------- *)

\* config.TokenData: the fields the client reads.  AccessToken is the
\* number of the access token (or app password); RefreshToken "" is none.
TokenData(access, refresh, tag, user) ==
    [AccessToken |-> access, RefreshToken |-> refresh, AuthMethod |-> tag, Username |-> user]

\* config.Config: the OAuth application credential.
Config(key, secret) == [OAuthKey |-> key, OAuthSecret |-> secret]

Configs == {Config("key", "secret"), Config("", "secret"), Config("key", "")}

\* An io.Reader over a string (strings.NewReader) or the nil reader.
NewReader(s) == [isNil |-> FALSE, data |-> s, pos |-> 0]
NilReader == [isNil |-> TRUE, data |-> <<>>, pos |-> 0]

\* What a read to the end of reader r yields, and r afterwards.
Unread(r) == IF r.isNil THEN <<>> ELSE SubSeq(r.data, r.pos + 1, Len(r.data))
Drained(r) == IF r.isNil THEN r ELSE [r EXCEPT !.pos = Len(r.data)]

\* url.Values.Encode: the keys in sorted order, "k=v" joined by "&".  A form
\* is a set of <<key byte, value byte>> pairs with distinct keys; "=" is byte 0
\* and "&" is byte 9 here.
RECURSIVE Encode(_)
Encode(form) ==
    IF form = {} THEN <<>>
    ELSE LET first == CHOOSE kv \in form : \A other \in form : kv[1] <= other[1]
             rest == form \ {first}
         IN  <<first[1], 0, first[2]>>
             \o (IF rest = {} THEN <<>> ELSE <<9>> \o Encode(rest))

Forms == {{}, {<<2, 1>>, <<1, 2>>}}

(* ------------------------ the public operations ------------------------ *)
\* Each builds the arguments of doRequest: method, urlStr, body, contentType.

Args(op, method, u, body, ct) ==
    [op |-> op, method |-> method, url |-> u, body |-> body, contentType |-> ct]

Get(path) == Args("Get", "GET", BitbucketAPI \o path, NilReader, "")
GetRaw(rawURL) == Args("GetRaw", "GET", rawURL, NilReader, "")
Post(path, jsonBody) ==
    Args("Post", "POST", BitbucketAPI \o path, NewReader(jsonBody), "application/json")
PostForm(path, data) ==
    Args("PostForm", "POST", BitbucketAPI \o path, NewReader(Encode(data)),
         "application/x-www-form-urlencoded")
Put(path, jsonBody) ==
    Args("Put", "PUT", BitbucketAPI \o path, NewReader(jsonBody), "application/json")
Delete(path) == Args("Delete", "DELETE", BitbucketAPI \o path, NilReader, "")

Invocations ==
    {Get(p) : p \in Paths} \cup {GetRaw(u) : u \in RawURLs}
    \cup {Post(p, b) : p \in Paths, b \in Bodies}
    \cup {PostForm(p, f) : p \in Paths, f \in Forms}
    \cup {Put(p, b) : p \in Paths, b \in Bodies}
    \cup {Delete(p) : p \in Paths}

(* ---------------------------- Client.setAuth --------------------------- *)

Bearer(access) == [scheme |-> "Bearer", user |-> "", cred |-> access]
Basic(user, pass) == [scheme |-> "Basic", user |-> user, cred |-> pass]

\* client.go: always a Bearer header.
setAuthBearer(token) == Bearer(token.AccessToken)

\* part_002: switch on c.authMethod.
setAuthTagged(method, token) ==
    IF method = AuthMethodToken
    THEN Basic(token.Username, token.AccessToken)
    ELSE Bearer(token.AccessToken)

setAuth(b, method, token) ==
    IF b = "client" THEN setAuthBearer(token) ELSE setAuthTagged(method, token)

(* ------------------------- http.NewRequest ----------------------------- *)

\* url.Parse inside http.NewRequest rejects the malformed URL.
NewRequestFails(u) == u = BadURL

\* The request as the transport sends it: the body is what it reads from the
\* reader handed to http.NewRequest.
Request(a, bodySent, auth) ==
    [method |-> a.method, url |-> a.url, body |-> bodySent,
     contentType |-> a.contentType, auth |-> auth]

\* The body of the first attempt.  Buffered versions read the caller's reader
\* into bodyBytes and send a fresh reader over it; the unbuffered version hands
\* the caller's reader to the transport.
FirstBody(reader) == Unread(reader)

\* The body of the retry.  Buffered: a fresh bytes.NewReader(bodyBytes).
RetryBodyBuffered(bodyBytes, readerNow) == bodyBytes

\* Unbuffered: the same reader again, at the position the first attempt left it.
RetryBodyUnbuffered(bodyBytes, readerNow) == Unread(readerNow)

RetryBody(b, bodyBytes, readerNow) ==
    IF b = "unbuffered"
    THEN RetryBodyUnbuffered(bodyBytes, readerNow)
    ELSE RetryBodyBuffered(bodyBytes, readerNow)

(* ------------------- the refresh guard of doRequest -------------------- *)

\* client.go:110
needsRefreshUntagged(status, method, token) ==
    status = StatusUnauthorized /\ token.RefreshToken # ""

\* part_002:128 and part_002:334
needsRefreshTagged(status, method, token) ==
    status = StatusUnauthorized /\ method = AuthMethodOAuth /\ token.RefreshToken # ""

\* Faulty variant: the refresh token is not looked at.
needsRefreshAny401(b, status, method, token) ==
    /\ status = StatusUnauthorized
    /\ b # "client" => method = AuthMethodOAuth

\* Faulty variant: a 403 is taken for an expired token too.
needsRefreshOn403(b, status, method, token) ==
    /\ status \in {StatusUnauthorized, 403}
    /\ b # "client" => method = AuthMethodOAuth
    /\ token.RefreshToken # ""

\* Faulty variant: neither the tag nor the refresh token is looked at.
needsRefreshWhateverCredential(b, status, method, token) ==
    status = StatusUnauthorized

needsRefresh(b, status, method, token) ==
    IF b = "client"
    THEN needsRefreshUntagged(status, method, token)
    ELSE needsRefreshTagged(status, method, token)

(* ----------------------- refreshToken, first half ---------------------- *)

\* Preserve the existing refresh token if the server didn't return a new one
\* (client.go:140-143, part_002:158-161).
preservingRefresh(newToken, oldRefresh) ==
    IF newToken.RefreshToken = ""
    THEN [newToken EXCEPT !.RefreshToken = oldRefresh]
    ELSE newToken

\* part_002:359-363 takes the token as the endpoint returned it.
asReturned(newToken, oldRefresh) == newToken

refreshedToken(b, newToken, oldRefresh) ==
    IF b = "unbuffered"
    THEN asReturned(newToken, oldRefresh)
    ELSE preservingRefresh(newToken, oldRefresh)

\* Faulty variant: only error statuses are rejected, any 2xx answer with a
\* decodable body yields a token.
RefreshAccessTokenAny2xx(ans) ==
    IF ~ans.reached
    THEN [ok |-> FALSE, err |-> "token refresh failed", token |-> TokenData(0, "", "", "")]
    ELSE IF ans.status >= 400
    THEN [ok |-> FALSE, err |-> "token refresh failed (HTTP)", token |-> TokenData(0, "", "", "")]
    ELSE IF ~ans.decodes
    THEN [ok |-> FALSE, err |-> "failed to parse token response", token |-> TokenData(0, "", "", "")]
    ELSE [ok |-> TRUE, err |-> "", token |-> TokenData(ans.access, ans.refresh, "", "")]

\* auth.RefreshAccessToken: the answer of the token endpoint turned into a
\* token or an error.  ans.reached is FALSE for a transport failure;
\* ans.decodes says whether the body unmarshals as the token JSON.  The JSON
\* carries access_token and refresh_token (absent = ""), no tag, no username.
RefreshAccessToken(ans) ==
    IF ~ans.reached
    THEN [ok |-> FALSE, err |-> "token refresh failed", token |-> TokenData(0, "", "", "")]
    ELSE IF ans.status # StatusOK
    THEN [ok |-> FALSE, err |-> "token refresh failed (HTTP)", token |-> TokenData(0, "", "", "")]
    ELSE IF ~ans.decodes
    THEN [ok |-> FALSE, err |-> "failed to parse token response", token |-> TokenData(0, "", "", "")]
    ELSE [ok |-> TRUE, err |-> "", token |-> TokenData(ans.access, ans.refresh, "", "")]

\* Faulty variant: the check passes as long as one of key and secret is set.
notConfiguredBoth(c) == c.OAuthKey = "" /\ c.OAuthSecret = ""

\* The OAuth application credential check at the head of refreshToken.
notConfigured(c) == c.OAuthKey = "" \/ c.OAuthSecret = ""

\* Faulty variant: c.token is assigned before the error of the refresher is checked.
refreshOutcomeAssigningFirst(b, c, tok, ans) ==
    IF notConfigured(c)
    THEN [err |-> "OAuth credentials not configured", called |-> FALSE,
          token |-> tok, save |-> <<>>]
    ELSE LET oldRefresh == tok.RefreshToken
             r == RefreshAccessToken(ans)
             newToken == refreshedToken(b, r.token, oldRefresh)
         IN  IF ~r.ok
             THEN [err |-> r.err, called |-> TRUE, token |-> newToken, save |-> <<>>]
             ELSE [err |-> "", called |-> TRUE, token |-> newToken, save |-> <<newToken>>]

\* Faulty variant: the refreshed token is saved but c.token is not replaced.
refreshOutcomeKeepingToken(b, c, tok, ans) ==
    IF notConfigured(c)
    THEN [err |-> "OAuth credentials not configured", called |-> FALSE,
          token |-> tok, save |-> <<>>]
    ELSE LET oldRefresh == tok.RefreshToken
             r == RefreshAccessToken(ans)
             newToken == refreshedToken(b, r.token, oldRefresh)
         IN  IF ~r.ok
             THEN [err |-> r.err, called |-> TRUE, token |-> tok, save |-> <<>>]
             ELSE [err |-> "", called |-> TRUE, token |-> tok, save |-> <<newToken>>]

\* Faulty variant: the credential is written back even when the refresher
\* failed.
refreshOutcomeSavingAlways(b, c, tok, ans) ==
    IF notConfigured(c)
    THEN [err |-> "OAuth credentials not configured", called |-> FALSE,
          token |-> tok, save |-> <<>>]
    ELSE LET oldRefresh == tok.RefreshToken
             r == RefreshAccessToken(ans)
             newToken == refreshedToken(b, r.token, oldRefresh)
         IN  IF ~r.ok
             THEN [err |-> r.err, called |-> TRUE, token |-> tok, save |-> <<tok>>]
             ELSE [err |-> "", called |-> TRUE, token |-> newToken, save |-> <<newToken>>]

\* Client.refreshToken up to its call of SaveToken: err is the error it
\* returns before saving ("" for none), called says whether the token refresher
\* was invoked, token is c.token afterwards, save holds the token handed to
\* SaveToken (<<>>: SaveToken is not called).
refreshOutcome(b, c, tok, ans) ==
    IF notConfigured(c)
    THEN [err |-> "OAuth credentials not configured", called |-> FALSE,
          token |-> tok, save |-> <<>>]
    ELSE LET oldRefresh == tok.RefreshToken
             r == RefreshAccessToken(ans)
             newToken == refreshedToken(b, r.token, oldRefresh)
         IN  IF ~r.ok
             THEN [err |-> r.err, called |-> TRUE, token |-> tok, save |-> <<>>]
             ELSE [err |-> "", called |-> TRUE, token |-> newToken, save |-> <<newToken>>]

\* config.SaveToken: token.json after the call.  "ok": written; "error": the
\* directory or the file could not be opened, nothing written; "torn": the
\* file was truncated and the write failed, no loadable credential is left.
SaveToken(st, tok, outcome) ==
    IF outcome = "ok" THEN <<tok>>
    ELSE IF outcome = "error" THEN st
    ELSE <<>>

SaveOutcomes == {"ok", "error", "torn"}

\* Faulty variant: the error of SaveToken is dropped.
refreshErrorDroppingSave(o, saveOutcome) == o.err

\* The error refreshToken returns: its own, or the one of config.SaveToken.
refreshError(o, saveOutcome) ==
    IF o.err # "" THEN o.err
    ELSE IF o.save # <<>> /\ saveOutcome # "ok" THEN "save failed"
    ELSE ""

\* Faulty variant: the error of refreshToken is ignored and the request retried.
onRefreshIgnoringError(err) == "retry"

\* doRequest after c.refreshToken(): an error ends the call, success retries.
onRefresh(err) == IF err # "" THEN "done" ELSE "retry"

\* Faulty variant: the retry is treated like a first attempt, a 401 refreshes again.
afterRetryLooping(b, answer, method, tok) ==
    IF answer.reached /\ needsRefresh(b, answer.status, method, tok)
    THEN "refresh" ELSE "done"

\* doRequest after the retry: return c.httpClient.Do(req2), whatever it is.
afterRetry(b, answer, method, tok) == "done"

(* ------------------------------ results -------------------------------- *)

NoResult == [kind |-> "none", status |-> 0, body |-> "", err |-> "", cause |-> ""]
Response(status, body) ==
    [kind |-> "resp", status |-> status, body |-> body, err |-> "", cause |-> ""]
Failure(err, cause) ==
    [kind |-> "err", status |-> 0, body |-> "", err |-> err, cause |-> cause]

SessionExpired == "session expired, please run 'bb auth login' again"

\* Faulty variant: a 401 response is turned into an error instead of being returned.
httpDoClassifying(answer) ==
    IF answer.reached /\ answer.status # StatusUnauthorized
    THEN Response(answer.status, answer.body)
    ELSE Failure("transport", "")

\* Faulty variant: the error of c.httpClient.Do is dropped and the (empty)
\* response returned.
httpDoDroppingError(answer) == Response(answer.status, answer.body)

\* (resp, err) of c.httpClient.Do as doRequest returns it.
httpDo(answer) ==
    IF answer.reached THEN Response(answer.status, answer.body)
    ELSE Failure("transport", "")

\* What Get, Post, ... hand back: the bytes (hasBody FALSE is nil) and the error.
Returned(hasBody, body, err, status, text) ==
    [hasBody |-> hasBody, body |-> body, err |-> err, status |-> status, text |-> text]
NoReturn == Returned(FALSE, "", "", 0, "")

ReadFailed == "failed to read response"

\* Faulty variant: only server errors are classified as API errors.
handleResponseServerErrorsOnly(resp, readOK) ==
    IF ~readOK THEN Returned(FALSE, "", ReadFailed, 0, "")
    ELSE IF resp.status >= 500
    THEN Returned(FALSE, "", "API error", resp.status, resp.body)
    ELSE Returned(TRUE, resp.body, "", 0, "")

\* handleResponse: readOK says whether io.ReadAll(resp.Body) succeeded;
\* "API error (HTTP %d): %s" carries the status and the body text.
handleResponse(resp, readOK) ==
    IF ~readOK THEN Returned(FALSE, "", ReadFailed, 0, "")
    ELSE IF resp.status >= 400
    THEN Returned(FALSE, "", "API error", resp.status, resp.body)
    ELSE Returned(TRUE, resp.body, "", 0, "")

\* The tail of a public operation, after doRequest has returned.
finish(op, res, readOK) ==
    IF res.kind = "err" THEN Returned(FALSE, "", res.err, 0, res.cause)
    ELSE IF op = "Delete" /\ res.status = StatusNoContent THEN NoReturn
    ELSE handleResponse(res, readOK)

(* --------------------------- the event log ----------------------------- *)
\* What one call did to the outside world, in order: HTTP requests sent to the
\* target, invocations of the token refresher, calls of SaveToken.

NoRequest == [method |-> "", url |-> "", body |-> <<>>, contentType |-> "", auth |-> Bearer(0)]
NoToken == TokenData(0, "", "", "")
NoConfig == Config("", "")
NoAnswer == [reached |-> FALSE, status |-> 0, decodes |-> FALSE, access |-> 0, refresh |-> ""]

\* An HTTP request sent to the target: ok says whether a response came back,
\* status and body are those of that response.
HttpEvent(req, answer) ==
    [type |-> "http", req |-> req, tok |-> NoToken, app |-> NoConfig, used |-> "",
     grant |-> NoAnswer,
     ok |-> answer.reached, status |-> answer.status, body |-> answer.body]
\* RefreshAccessToken(c.OAuthKey, c.OAuthSecret, refresh) was called and the
\* token endpoint answered ans: ok says whether it returned a token, tok is
\* that token.
RefreshEvent(c, refresh, ans, ok, tok) ==
    [type |-> "refresh", req |-> NoRequest, tok |-> tok, app |-> c, used |-> refresh,
     grant |-> ans,
     ok |-> ok, status |-> 0, body |-> ""]
\* SaveToken(tok) was called: ok says whether it returned nil.
SaveEvent(tok, ok) ==
    [type |-> "save", req |-> NoRequest, tok |-> tok, app |-> NoConfig, used |-> "",
     grant |-> NoAnswer,
     ok |-> ok, status |-> 0, body |-> ""]

Events(l, type) == SelectSeq(l, LAMBDA e : e.type = type)

(* ------------------------------- state --------------------------------- *)

VARIABLES
    build,       \* which version of the client runs
    token,       \* c.token
    authMethod,  \* c.authMethod ("" where the Client has no such field)
    cfg,         \* c.cfg
    store,       \* token.json: <<>> when absent, <<t>> when it holds t
    issued,      \* the number of the last access token the endpoint issued
    calls,       \* public operations completed on this client
    pc,          \* "idle", "refresh", "retry", "done", "returned"
    args,        \* the arguments of the doRequest in progress
    reader,      \* the caller's body reader, as read so far
    bodyBytes,   \* the buffered body (buffered versions)
    log,         \* the events of the call in progress or just completed
    result,      \* what doRequest returned
    ret,         \* what the public operation returned
    token0,      \* c.token when the call started
    store0,      \* token.json when the call started
    utilIn,      \* the operation applied outside the client, with its inputs
    utilOut,     \* what that operation returned
    cleared      \* successful ClearToken calls in a row since the last SaveToken

vars == <<build, token, authMethod, cfg, store, issued, calls, pc, args, reader,
          bodyBytes, log, result, ret, token0, store0, utilIn, utilOut, cleared>>

\* The variables of the client and of the call in progress, token.json aside.
clientVars == <<build, token, authMethod, cfg, issued, calls, pc, args, reader,
                bodyBytes, log, result, ret, token0, store0>>

\* The variables of the operations outside the client.
utilVars == <<utilIn, utilOut, cleared>>

\* No such operation has been applied.
NoUtil == [name |-> "none"]

\* NewClient / NewClientWith: the tag of the stored credential, "oauth" when
\* it has none (part_002:53-56, 76-79, 291-294); client.go keeps no tag.
\* Faulty variant: a credential without tag is not taken for an OAuth one.
clientAuthMethodWithoutDefault(b, t) ==
    IF b = "client" THEN "" ELSE t.AuthMethod

clientAuthMethod(b, t) ==
    IF b = "client" THEN ""
    ELSE IF t.AuthMethod = "" THEN AuthMethodOAuth ELSE t.AuthMethod

\* The credentials the logins store: an app password is stored with its
\* username and without refresh token (auth.go:155-160, part_008:165-170,
\* 260-265); an OAuth credential has no username and the refresh token the
\* token endpoint returned, if any (a token read from stdin has none).
InitialTokens ==
    {TokenData(1, "", AuthMethodToken, "bob")} \cup
    {TokenData(1, r, tag, "") : r \in {"", "R1"}, tag \in Tags \ {AuthMethodToken}}

\* NewClient: the configuration and the credential are loaded from disk.
Init ==
    /\ build \in Builds
    /\ token \in InitialTokens
    /\ authMethod = clientAuthMethod(build, token)
    /\ cfg \in Configs
    /\ store = <<token>>
    /\ issued = 1
    /\ calls = 0
    /\ pc = "idle"
    /\ args = Get("/user")
    /\ reader = NilReader
    /\ bodyBytes = <<>>
    /\ log = <<>>
    /\ result = NoResult
    /\ ret = NoReturn
    /\ token0 = token
    /\ store0 = store
    /\ utilIn = NoUtil
    /\ utilOut = NoUtil
    /\ cleared = 0

(* ----------------------- answers of the environment -------------------- *)

ServerAnswers ==
    {[reached |-> FALSE, status |-> 0, body |-> ""]}
    \cup {[reached |-> TRUE, status |-> s, body |-> b] : s \in Statuses, b \in RespBodies}

TokenAnswer(reached, status, decodes, access, refresh) ==
    [reached |-> reached, status |-> status, decodes |-> decodes,
     access |-> access, refresh |-> refresh]

TokenEndpointAnswers(next) ==
    {TokenAnswer(FALSE, 0, FALSE, 0, ""), TokenAnswer(TRUE, 400, FALSE, 0, ""),
     TokenAnswer(TRUE, StatusOK, FALSE, 0, ""),
     TokenAnswer(TRUE, StatusNoContent, FALSE, 0, ""),
     TokenAnswer(TRUE, 201, TRUE, next, "R2")}
    \cup {TokenAnswer(TRUE, StatusOK, TRUE, next, r) : r \in {"", "R1", "R2"}}

(* ------------------------------ doRequest ------------------------------ *)

\* doRequest up to its decision on the first response.
doRequest(a, answer) ==
    /\ pc = "idle"
    /\ calls < MaxCalls
    /\ args' = a
    /\ token0' = token
    /\ store0' = store
    /\ ret' = NoReturn
    /\ bodyBytes' = IF build = "unbuffered" THEN <<>> ELSE Unread(a.body)
    /\ IF NewRequestFails(a.url)
       THEN /\ reader' = IF build = "unbuffered" THEN a.body ELSE Drained(a.body)
            /\ log' = <<>>
            /\ result' = Failure("invalid URL", "")
            /\ pc' = "done"
       ELSE /\ reader' = Drained(a.body)
            /\ log' = <<HttpEvent(Request(a, FirstBody(a.body), setAuth(build, authMethod, token)),
                                  answer)>>
            /\ IF ~answer.reached
               THEN /\ result' = httpDo(answer)
                    /\ pc' = "done"
               ELSE IF needsRefresh(build, answer.status, authMethod, token)
               THEN /\ result' = NoResult
                    /\ pc' = "refresh"
               ELSE /\ result' = httpDo(answer)
                    /\ pc' = "done"
    /\ UNCHANGED <<build, token, authMethod, cfg, store, issued, calls>>
    /\ UNCHANGED utilVars

\* c.refreshToken() and what doRequest does with its error.
refreshToken(ans, saveOutcome) ==
    /\ pc = "refresh"
    /\ LET o == refreshOutcome(build, cfg, token, ans)
           saving == o.save # <<>>
           err == refreshError(o, saveOutcome)
       IN  /\ token' = o.token
           /\ issued' = IF o.called /\ RefreshAccessToken(ans).ok THEN ans.access ELSE issued
           /\ log' = log \o (IF o.called
                             THEN <<RefreshEvent(cfg, token.RefreshToken, ans,
                                                 RefreshAccessToken(ans).ok,
                                                 RefreshAccessToken(ans).token)>>
                             ELSE <<>>)
                         \o (IF saving THEN <<SaveEvent(o.save[1], saveOutcome = "ok")>>
                             ELSE <<>>)
           /\ store' = IF saving THEN SaveToken(store, o.save[1], saveOutcome) ELSE store
           /\ pc' = onRefresh(err)
           /\ result' = IF err # "" THEN Failure(SessionExpired, err) ELSE NoResult
    /\ UNCHANGED <<build, authMethod, cfg, calls, args, reader, bodyBytes, ret, token0, store0>>
    /\ UNCHANGED utilVars

\* The retry: the request rebuilt and sent again, its outcome returned.
retry(answer) ==
    /\ pc = "retry"
    /\ log' = Append(log, HttpEvent(Request(args, RetryBody(build, bodyBytes, reader),
                                            setAuth(build, authMethod, token)),
                                    answer))
    /\ reader' = Drained(reader)
    /\ pc' = afterRetry(build, answer, authMethod, token)
    /\ result' = IF pc' = "done" THEN httpDo(answer) ELSE NoResult
    /\ UNCHANGED <<build, token, authMethod, cfg, store, issued, calls, args, bodyBytes,
                   ret, token0, store0>>
    /\ UNCHANGED utilVars

\* Get, GetRaw, Post, PostForm, Put, Delete after doRequest has returned.
return(readOK) ==
    /\ pc = "done"
    /\ ret' = finish(args.op, result, readOK)
    /\ calls' = calls + 1
    /\ pc' = "returned"
    /\ UNCHANGED <<build, token, authMethod, cfg, store, issued, args, reader, bodyBytes,
                   log, result, token0, store0>>
    /\ UNCHANGED utilVars

\* The locals of the finished call are gone; the client is ready for the next.
idleWith(t, m) ==
    /\ pc' = "idle"
    /\ token' = t
    /\ authMethod' = m
    /\ args' = Get("/user")
    /\ reader' = NilReader
    /\ bodyBytes' = <<>>
    /\ log' = <<>>
    /\ result' = NoResult
    /\ ret' = NoReturn
    /\ token0' = t
    /\ store0' = store
    /\ UNCHANGED <<build, cfg, store, issued, calls>>
    /\ UNCHANGED utilVars

\* The next command of the CLI: a new process, NewClient loads token.json again.
NewClient ==
    /\ pc \in {"returned", "exited"}
    /\ store # <<>>
    /\ idleWith(store[1], clientAuthMethod(build, store[1]))

\* Faulty variant: the client goes on with the credential it had before the
\* call.
nextCallForgettingRefresh ==
    /\ pc = "returned"
    /\ idleWith(token0, authMethod)

\* The caller makes its next call on the client it holds (NewClientWith users,
\* commands that make several calls).
nextCall ==
    /\ pc = "returned"
    /\ idleWith(token, authMethod)

Next ==
    \/ \E a \in Invocations, answer \in ServerAnswers : doRequest(a, answer)
    \/ \E ans \in TokenEndpointAnswers(issued + 1), outcome \in SaveOutcomes : refreshToken(ans, outcome)
    \/ \E answer \in ServerAnswers : retry(answer)
    \/ \E readOK \in BOOLEAN : return(readOK)
    \/ NewClient
    \/ nextCall

Spec == Init /\ [][Next]_vars

\* One client for all the calls: no other process in between.
NextOneClient ==
    \/ \E a \in Invocations, answer \in ServerAnswers : doRequest(a, answer)
    \/ \E ans \in TokenEndpointAnswers(issued + 1), outcome \in SaveOutcomes : refreshToken(ans, outcome)
    \/ \E answer \in ServerAnswers : retry(answer)
    \/ \E readOK \in BOOLEAN : return(readOK)
    \/ nextCall

SpecOneClient == Init /\ [][NextOneClient]_vars

\* One version of the client at a time.
SpecClient == (Init /\ build = "client") /\ [][Next]_vars
SpecTagged == (Init /\ build = "tagged") /\ [][Next]_vars
SpecUnbuffered == (Init /\ build = "unbuffered") /\ [][Next]_vars

(* ------------------------- the credential store ------------------------ *)
\* config.LoadToken, config.SaveToken, config.ClearToken and `bb auth logout`
\* run as commands of their own against token.json.

\* Consecutive ClearToken calls counted.
MaxClears == 3

\* What the file system does to os.Remove: "ok" removes the file or reports
\* that it does not exist; "ioerror" is any other failure (permissions, ...).
RemoveOutcomes == {"ok", "ioerror"}

\* config.LoadToken: the credential in token.json, an error when there is none.
LoadToken(st) ==
    IF st = <<>> THEN [err |-> "no token", token |-> NoToken]
    ELSE [err |-> "", token |-> st[1]]

\* Faulty variant: the error of os.Remove is returned as it is, a missing
\* file included.
ClearTokenStrict(st, fs) ==
    IF fs = "ioerror" THEN [err |-> "remove failed", store |-> st]
    ELSE IF st = <<>> THEN [err |-> "file does not exist", store |-> st]
    ELSE [err |-> "", store |-> <<>>]

\* config.ClearToken: os.Remove(token.json); os.IsNotExist is not an error.
ClearToken(st, fs) ==
    IF fs = "ioerror" THEN [err |-> "remove failed", store |-> st]
    ELSE [err |-> "", store |-> <<>>]

\* The two versions of `bb auth logout`: "checking" loads the credential first
\* and reports "Already logged out." when there is none (part_007, part_008);
\* "direct" calls ClearToken at once (cmd/auth/auth.go, part_009).
LogoutVersions == {"checking", "direct"}

newCmdLogout(version, st, fs) ==
    IF version = "checking" /\ LoadToken(st).err # ""
    THEN [err |-> "", store |-> st, message |-> "Already logged out."]
    ELSE LET c == ClearToken(st, fs)
         IN  IF c.err # "" THEN [err |-> c.err, store |-> c.store, message |-> ""]
             ELSE [err |-> "", store |-> c.store, message |-> "Logged out"]

Stores == {<<>>} \cup {<<t>> : t \in InitialTokens}

StoreOp(name, fs, version) == [name |-> name, fs |-> fs, version |-> version]
StoreResult(err, tok, message) == [err |-> err, token |-> tok, message |-> message]

\* A command starts with whatever token.json holds.
InitStore ==
    /\ build = "client"
    /\ token = NoToken
    /\ authMethod = ""
    /\ cfg = NoConfig
    /\ store \in Stores
    /\ issued = 1
    /\ calls = 0
    /\ pc = "idle"
    /\ args = Get("/user")
    /\ reader = NilReader
    /\ bodyBytes = <<>>
    /\ log = <<>>
    /\ result = NoResult
    /\ ret = NoReturn
    /\ token0 = token
    /\ store0 = store
    /\ utilIn = NoUtil
    /\ utilOut = NoUtil
    /\ cleared = 0

loadToken ==
    /\ utilIn' = StoreOp("LoadToken", "ok", "")
    /\ utilOut' = StoreResult(LoadToken(store).err, LoadToken(store).token, "")
    /\ UNCHANGED <<store, cleared>>
    /\ UNCHANGED clientVars

saveToken(t, outcome) ==
    /\ utilIn' = StoreOp("SaveToken", outcome, "")
    /\ utilOut' = StoreResult(IF outcome = "ok" THEN "" ELSE "write failed", t, "")
    /\ store' = SaveToken(store, t, outcome)
    /\ cleared' = 0
    /\ UNCHANGED clientVars

clearToken(fs) ==
    /\ cleared < MaxClears
    /\ utilIn' = StoreOp("ClearToken", fs, "")
    /\ utilOut' = StoreResult(ClearToken(store, fs).err, NoToken, "")
    /\ store' = ClearToken(store, fs).store
    /\ cleared' = IF ClearToken(store, fs).err = "" THEN cleared + 1 ELSE cleared
    /\ UNCHANGED clientVars

logout(version, fs) ==
    /\ cleared < MaxClears
    /\ utilIn' = StoreOp("logout", fs, version)
    /\ LET r == newCmdLogout(version, store, fs)
       IN  /\ utilOut' = StoreResult(r.err, NoToken, r.message)
           /\ store' = r.store
           /\ cleared' = IF r.err = "" THEN cleared + 1 ELSE cleared
    /\ UNCHANGED clientVars

NextStore ==
    \/ loadToken
    \/ \E t \in InitialTokens, outcome \in SaveOutcomes : saveToken(t, outcome)
    \/ \E fs \in RemoveOutcomes : clearToken(fs)
    \/ \E version \in LogoutVersions, fs \in RemoveOutcomes : logout(version, fs)

SpecStore == InitStore /\ [][NextStore]_vars

(* ------------------------- cmdutil.ResolveBody ------------------------- *)
\* A text is a sequence of characters.

\* Longest --body text.
MaxTextLen == 2

Chars == {" ", "\n", "a"}

RECURSIVE TextsUpTo(_)
TextsUpTo(n) ==
    IF n = 0 THEN {<<>>}
    ELSE LET shorter == TextsUpTo(n - 1)
         IN  shorter \cup {Append(s, c) : s \in {t \in shorter : Len(t) = n - 1}, c \in Chars}

Texts == TextsUpTo(MaxTextLen)

\* unicode.IsSpace, on the characters used here.
IsSpace(c) == c \in {" ", "\n", "\t", "\r"}

\* Faulty variant: nothing is trimmed, so only the empty text counts as blank.
TrimSpaceNot(s) == s

\* strings.TrimSpace: leading and trailing white space removed.
RECURSIVE TrimSpace(_)
TrimSpace(s) ==
    IF s = <<>> THEN s
    ELSE IF IsSpace(Head(s)) THEN TrimSpace(Tail(s))
    ELSE IF IsSpace(s[Len(s)]) THEN TrimSpace(SubSeq(s, 1, Len(s) - 1))
    ELSE s

\* The result of reading a file or of running the editor: the text, or failed.
ReadOK(text) == [failed |-> FALSE, text |-> text]
ReadFails == [failed |-> TRUE, text |-> <<>>]

BodyResult(value, err) == [name |-> "ResolveBody", value |-> value, err |-> err]

\* readBodyFile: path "-" reads standard input, any other path the file.
readBodyFile(path, stdin, file) ==
    LET read == IF path = "-" THEN stdin ELSE file
    IN  IF read.failed THEN BodyResult(<<>>, "failed to read body file")
        ELSE IF TrimSpace(read.text) = <<>> THEN BodyResult(<<>>, "body file is empty")
        ELSE BodyResult(read.text, "")

\* openEditor: edited is what the editor left in the temporary file, failed
\* when the file could not be created or read or the editor exited with an
\* error.
openEditor(edited) ==
    IF edited.failed THEN BodyResult(<<>>, "editor failed")
    ELSE IF TrimSpace(edited.text) = <<>> THEN BodyResult(<<>>, "body cannot be blank")
    ELSE BodyResult(edited.text, "")

\* The flags counted as ResolveBody counts them.
CountChanged(bodyChanged, bodyFileChanged, editorChanged) ==
    (IF bodyChanged THEN 1 ELSE 0) + (IF bodyFileChanged THEN 1 ELSE 0)
    + (IF editorChanged THEN 1 ELSE 0)

\* ResolveBody on the input in: the flag values, the *Changed booleans and
\* what the environment holds (standard input, the file, the editor's output).
ResolveBody(in) ==
    LET count == CountChanged(in.bodyChanged, in.bodyFileChanged, in.editorChanged)
    IN  IF count = 0
        THEN BodyResult(<<>>, "must provide --body, --body-file, or --editor")
        ELSE IF count > 1
        THEN BodyResult(<<>>, "specify only one of --body, --body-file, or --editor")
        ELSE IF in.bodyChanged
        THEN IF TrimSpace(in.body) = <<>> THEN BodyResult(<<>>, "body cannot be blank")
             ELSE BodyResult(in.body, "")
        ELSE IF in.bodyFileChanged
        THEN readBodyFile(in.bodyFile, in.stdin, in.file)
        ELSE openEditor(in.edited)

Reads == {ReadFails, ReadOK(<<>>), ReadOK(<<" ", "\n">>), ReadOK(<<"b", "\n">>)}

BodyInputs ==
    [name : {"ResolveBody"},
     body : Texts, bodyFile : {"-", "comment.md"}, editor : BOOLEAN,
     bodyChanged : BOOLEAN, bodyFileChanged : BOOLEAN, editorChanged : BOOLEAN,
     stdin : {ReadFails, ReadOK(<<"s">>)}, file : Reads,
     edited : {ReadFails, ReadOK(<<"\n">>), ReadOK(<<"e">>)}]

\* The variables of the client are not used by the operations below.
ClientUnused ==
    /\ build = "client"
    /\ token = NoToken
    /\ authMethod = ""
    /\ cfg = NoConfig
    /\ store = <<>>
    /\ issued = 1
    /\ calls = 0
    /\ pc = "idle"
    /\ args = Get("/user")
    /\ reader = NilReader
    /\ bodyBytes = <<>>
    /\ log = <<>>
    /\ result = NoResult
    /\ ret = NoReturn
    /\ token0 = token
    /\ store0 = store
    /\ cleared = 0

InitBody ==
    /\ ClientUnused
    /\ utilIn \in BodyInputs
    /\ utilOut = NoUtil

resolveBody ==
    /\ utilIn.name = "ResolveBody"
    /\ utilOut.name = "none"
    /\ utilOut' = ResolveBody(utilIn)
    /\ UNCHANGED <<utilIn, cleared, store>>
    /\ UNCHANGED clientVars

SpecBody == InitBody /\ [][resolveBody]_vars

(* --------------------------- output.Truncate --------------------------- *)
\* A Go string is a sequence of bytes holding the UTF-8 encoding of its
\* characters.  A byte is <<c, k>>: the k-th byte of the encoding of c.

\* Longest input, in characters, and largest maxLen.
MaxRunes == 3
MaxMaxLen == 6

\* The characters of the inputs: an ASCII letter and a character encoded in
\* three bytes; every other character here (the dot) takes one byte.
InputRunes == {"a", "w"}
Width(c) == IF c = "w" THEN 3 ELSE 1

RECURSIVE RuneStringsUpTo(_)
RuneStringsUpTo(n) ==
    IF n = 0 THEN {<<>>}
    ELSE LET shorter == RuneStringsUpTo(n - 1)
         IN  shorter \cup {Append(s, c) : s \in {t \in shorter : Len(t) = n - 1},
                                          c \in InputRunes}

\* The UTF-8 encoding of a sequence of characters.
RECURSIVE UTF8(_)
UTF8(chars) ==
    IF chars = <<>> THEN <<>>
    ELSE [k \in 1..Width(Head(chars)) |-> <<Head(chars), k>>] \o UTF8(Tail(chars))

\* Truncate: len(s) and the slices s[:maxLen], s[:maxLen-3] are in bytes.
Truncate(s, maxLen) ==
    IF Len(s) <= maxLen THEN s
    ELSE IF maxLen <= 3 THEN SubSeq(s, 1, maxLen)
    ELSE SubSeq(s, 1, maxLen - 3) \o UTF8(<<".", ".", ".">>)

TruncateInputs ==
    [name : {"Truncate"}, chars : RuneStringsUpTo(MaxRunes), maxLen : 0..MaxMaxLen]

InitTruncate ==
    /\ ClientUnused
    /\ utilIn \in TruncateInputs
    /\ utilOut = NoUtil

truncate ==
    /\ utilIn.name = "Truncate"
    /\ utilOut.name = "none"
    /\ utilOut' = [name |-> "Truncate", bytes |-> Truncate(UTF8(utilIn.chars), utilIn.maxLen)]
    /\ UNCHANGED <<utilIn, cleared, store>>
    /\ UNCHANGED clientVars

SpecTruncate == InitTruncate /\ [][truncate]_vars

(* ======================================================================= *)
(* maskToken (cmd/auth): the rendering of a token by `bb auth status`.       *)
(* A token is a string of bytes; len(token) and token[:4] are in bytes.      *)
(* ======================================================================= *)

MaxTail == 34

\* The number of bytes shown and the most asterisks that follow them.
Visible == 4
MaskLimit == 32

min(a, b) == IF a < b THEN a ELSE b

\* strings.Repeat(c, n)
Repeat(c, n) == [i \in 1..n |-> c]

Star == <<"*", 1>>

\* Faulty variant: one more byte of the token is shown.
maskTokenShowingFive(tok) ==
    IF Len(tok) <= Visible THEN Repeat(Star, 4)
    ELSE SubSeq(tok, 1, Visible + 1) \o Repeat(Star, min(Len(tok) - Visible - 1, MaskLimit))

maskToken(tok) ==
    IF Len(tok) <= Visible THEN Repeat(Star, 4)
    ELSE SubSeq(tok, 1, Visible) \o Repeat(Star, min(Len(tok) - Visible, MaskLimit))

\* Tokens: a few characters, of one byte or of three, followed by a run of
\* one ASCII letter long enough to pass the limit on asterisks.
MaskInputs ==
    {[name |-> "maskToken", chars |-> head \o Repeat(c, n)] :
        head \in RuneStringsUpTo(MaxRunes), c \in {"a", "b"}, n \in 0..MaxTail}

InitMask ==
    /\ ClientUnused
    /\ utilIn \in MaskInputs
    /\ utilOut = NoUtil

mask ==
    /\ utilIn.name = "maskToken"
    /\ utilOut.name = "none"
    /\ utilOut' = [name |-> "maskToken", bytes |-> maskToken(UTF8(utilIn.chars))]
    /\ UNCHANGED <<utilIn, cleared, store>>
    /\ UNCHANGED clientVars

SpecMask == InitMask /\ [][mask]_vars

(* ======================================================================= *)
(* The HTTP client timeout chosen by NewClient from BB_HTTP_TIMEOUT.         *)
(* strconv.Atoi yields an int of 64 bits and a time.Duration is an int64 of  *)
(* nanoseconds; numbers of that size are kept here as sequences of decimal   *)
(* digits, most significant first, without leading zeros (zero is <<>>).     *)
(* ======================================================================= *)

MaxEnvLen == 2

DecimalDigits == <<"0", "1", "2", "3", "4", "5", "6", "7", "8", "9">>
IsDigit(c) == \E i \in 1..10 : DecimalDigits[i] = c
DigitOf(c) == (CHOOSE i \in 1..10 : DecimalDigits[i] = c) - 1
Itoa(digits) == [i \in 1..Len(digits) |-> DecimalDigits[digits[i] + 1]]

RECURSIVE Canon(_)
Canon(d) == IF d = <<>> \/ d[1] # 0 THEN d ELSE Canon(Tail(d))

Less(a, b) ==
    \/ Len(a) < Len(b)
    \/ /\ Len(a) = Len(b)
       /\ \E i \in 1..Len(a) : a[i] < b[i] /\ \A j \in 1..(i - 1) : a[j] = b[j]

Pad(a, n) == [i \in 1..n |-> IF i <= n - Len(a) THEN 0 ELSE a[i - (n - Len(a))]]

Add(a, b) ==
    LET RECURSIVE AddDigits(_, _, _)
        AddDigits(x, y, carry) ==
            IF x = <<>> THEN <<carry>>
            ELSE LET k == Len(x)
                     t == x[k] + y[k] + carry
                 IN  AddDigits(SubSeq(x, 1, k - 1), SubSeq(y, 1, k - 1), t \div 10)
                         \o <<t % 10>>
        n == IF Len(a) < Len(b) THEN Len(b) ELSE Len(a)
    IN  Canon(AddDigits(Pad(a, n), Pad(b, n), 0))

\* a - b, for a >= b
Sub(a, b) ==
    LET RECURSIVE SubDigits(_, _, _)
        SubDigits(x, y, borrow) ==
            IF x = <<>> THEN <<>>
            ELSE LET k == Len(x)
                     d == x[k] - y[k] - borrow
                 IN  SubDigits(SubSeq(x, 1, k - 1), SubSeq(y, 1, k - 1),
                               IF d < 0 THEN 1 ELSE 0)
                         \o <<IF d < 0 THEN d + 10 ELSE d>>
    IN  Canon(SubDigits(a, Pad(b, Len(a)), 0))

\* The remainder of a by m, digit by digit from the left; r is the remainder
\* of the digits read so far, which is below m.
Mod(a, m) ==
    LET RECURSIVE Reduce(_)
        Reduce(r) == IF Less(r, m) THEN r ELSE Reduce(Sub(r, m))
        RECURSIVE ModFrom(_, _)
        ModFrom(r, rest) ==
            IF rest = <<>> \/ ~Less(r, m) THEN r
            ELSE ModFrom(Reduce(Canon(r \o <<Head(rest)>>)), Tail(rest))
    IN  ModFrom(<<>>, a)

\* 2^63 and 2^64
TwoTo63 == <<9, 2, 2, 3, 3, 7, 2, 0, 3, 6, 8, 5, 4, 7, 7, 5, 8, 0, 8>>
TwoTo64 == <<1, 8, 4, 4, 6, 7, 4, 4, 0, 7, 3, 7, 0, 9, 5, 5, 1, 6, 1, 6>>

\* A time.Duration: a sign and a number of nanoseconds.
Duration(neg, ns) == [neg |-> neg, ns |-> ns]

\* The int64 that holds the low 64 bits of a non-negative number.
Int64(x) ==
    LET m == Mod(Add(x, TwoTo63), TwoTo64)
    IN  IF Less(m, TwoTo63) THEN Duration(TRUE, Sub(TwoTo63, m))
        ELSE Duration(FALSE, Sub(m, TwoTo63))

\* time.Second, as a factor: nine more decimal places.
TimesSecond(d) == IF d = <<>> THEN <<>> ELSE d \o Repeat(0, 9)

defaultTimeout == Duration(FALSE, TimesSecond(<<3, 0>>))

\* strconv.Atoi: an optional sign and at least one decimal digit, nothing
\* else; a value outside the int range is an error.
Atoi(s) ==
    LET signed == s # <<>> /\ s[1] \in {"+", "-"}
        neg == signed /\ s[1] = "-"
        body == IF signed THEN Tail(s) ELSE s
        syntax == body # <<>> /\ \A i \in 1..Len(body) : IsDigit(body[i])
        digits == Canon([i \in 1..Len(body) |-> DigitOf(body[i])])
    IN  IF ~syntax THEN [err |-> "syntax", neg |-> FALSE, digits |-> <<>>]
        ELSE IF (neg /\ Less(TwoTo63, digits)) \/ (~neg /\ ~Less(digits, TwoTo63))
             THEN [err |-> "range", neg |-> neg, digits |-> digits]
        ELSE [err |-> "", neg |-> neg /\ digits # <<>>, digits |-> digits]

\* The environment: BB_HTTP_TIMEOUT unset, or set to a string.
Unset == [set |-> FALSE, value |-> <<>>]
SetTo(s) == [set |-> TRUE, value |-> s]
Getenv(env) == IF env.set THEN env.value ELSE <<>>

\* The Timeout field of the http.Client that NewClient builds.
timeout(b, env) ==
    IF b = "unbuffered" THEN Duration(FALSE, <<>>)
    ELSE LET envTimeout == Getenv(env)
             r == Atoi(envTimeout)
         IN  IF envTimeout # <<>> /\ r.err = "" /\ ~r.neg /\ r.digits # <<>>
             THEN Int64(TimesSecond(r.digits))
             ELSE defaultTimeout

EnvChars == {"0", "1", "3", "9", "-", "+", "x", " "}

RECURSIVE EnvStringsUpTo(_)
EnvStringsUpTo(n) ==
    IF n = 0 THEN {<<>>}
    ELSE LET shorter == EnvStringsUpTo(n - 1)
         IN  shorter \cup {Append(s, c) : s \in {t \in shorter : Len(t) = n - 1},
                                          c \in EnvChars}

\* Values around the largest number of seconds an int64 of nanoseconds holds
\* (9223372036) and around the largest int.
LargeValues ==
    {Itoa(<<9, 2, 2, 3, 3, 7, 2, 0, 3, 6>>),
     Itoa(<<9, 2, 2, 3, 3, 7, 2, 0, 3, 7>>),
     Itoa(<<1, 8, 4, 4, 6, 7, 4, 4, 0, 7, 4>>),
     Itoa(Sub(TwoTo63, <<1>>)),
     Itoa(TwoTo63),
     Itoa(Repeat(9, 20))}

TimeoutInputs ==
    [name : {"NewClient"}, build : Builds,
     env : {Unset} \cup {SetTo(s) : s \in EnvStringsUpTo(MaxEnvLen) \cup LargeValues}]

InitTimeout ==
    /\ ClientUnused
    /\ utilIn \in TimeoutInputs
    /\ utilOut = NoUtil

newClientTimeout ==
    /\ utilIn.name = "NewClient"
    /\ utilOut.name = "none"
    /\ utilOut' = [name |-> "NewClient", Timeout |-> timeout(utilIn.build, utilIn.env)]
    /\ UNCHANGED <<utilIn, cleared, store>>
    /\ UNCHANGED clientVars

SpecTimeout == InitTimeout /\ [][newClientTimeout]_vars

(* ======================================================================= *)
(* The update check (internal/update, cmd/root.go).  A command run starts    *)
(* CheckForUpdate in a goroutine that sends its result on updateCh, a        *)
(* channel with room for one value; PersistentPostRun, which runs only when  *)
(* the command itself has succeeded, receives from it.  A version is a       *)
(* string of characters.                                                     *)
(* ======================================================================= *)

MaxVersion == 2

\* cacheTTL, in hours
cacheTTL == 24

\* A nil *UpdateInfo, and one that is not.
NoUpdate == [nil |-> TRUE, Current |-> <<>>, Latest |-> <<>>]
UpdateInfo(current, latest) == [nil |-> FALSE, Current |-> current, Latest |-> latest]

\* CheckForUpdate, with readCache, fetchLatestVersion and writeCache: file is
\* the cache file as found and answer what the release URL answers; the
\* result is the *UpdateInfo and the cache file as left.
CheckForUpdate(currentVersion, file, answer) ==
    LET TrimPrefix(s) == IF s # <<>> /\ s[1] = "v" THEN Tail(s) ELSE s
        current == TrimPrefix(currentVersion)
        readCacheFails == file.kind # "valid" \/ file.age > cacheTTL
        cached == TrimPrefix(file.LatestVersion)
        fetchLatestVersion ==
            IF ~answer.reached \/ answer.status # StatusOK \/ ~answer.decodes THEN <<>>
            ELSE answer.TagName
        writeCache ==
            IF file.kind = "nodir" THEN file
            ELSE [kind |-> "valid", LatestVersion |-> fetchLatestVersion, age |-> 0]
        latest == TrimPrefix(fetchLatestVersion)
    IN  IF currentVersion = <<"d", "e", "v">> \/ currentVersion = <<>>
        THEN [info |-> NoUpdate, file |-> file]
        ELSE IF ~readCacheFails
        THEN [info |-> IF cached # <<>> /\ cached # current
                       THEN UpdateInfo(current, cached) ELSE NoUpdate,
              file |-> file]
        ELSE IF fetchLatestVersion = <<>>
        THEN [info |-> NoUpdate, file |-> file]
        ELSE [info |-> IF latest # current THEN UpdateInfo(current, latest) ELSE NoUpdate,
              file |-> writeCache]

\* The inputs of a command run: the version built in, the cache file (no
\* configuration directory, no file, not JSON, or a cache of some age in
\* hours), the answer of the release URL, whether the command succeeds and
\* whether stdout is a terminal.
UpdateInputs ==
    LET Versions == {<<>>, <<"d", "e", "v">>}
                        \cup {Itoa(<<n>>) : n \in 1..MaxVersion}
                        \cup {<<"v">> \o Itoa(<<n>>) : n \in 1..MaxVersion}
        Files == [kind : {"nodir", "missing", "corrupt"}, LatestVersion : {<<>>}, age : {0}]
                     \cup [kind : {"valid"}, LatestVersion : Versions,
                           age : {0, cacheTTL, cacheTTL + 1}]
        Answers == [reached : {FALSE}, status : {0}, decodes : {FALSE}, TagName : {<<>>}]
                     \cup [reached : {TRUE}, status : {404}, decodes : {TRUE}, TagName : {<<>>}]
                     \cup [reached : {TRUE}, status : {StatusOK}, decodes : {FALSE}, TagName : {<<>>}]
                     \cup [reached : {TRUE}, status : {StatusOK}, decodes : {TRUE}, TagName : Versions]
    IN  [name : {"update"}, version : Versions, file : Files, answer : Answers,
         runFails : BOOLEAN, terminal : BOOLEAN]

InitUpdate ==
    /\ ClientUnused
    /\ utilIn \in UpdateInputs
    /\ utilOut = NoUtil

\* Faulty variant: the goroutine is not started.
PersistentPreRunWithoutCheck ==
    /\ utilIn.name = "update"
    /\ utilOut.name = "none"
    /\ utilOut' = [name |-> "update", main |-> "run", worker |-> "none",
                   updateCh |-> <<>>, info |-> NoUpdate, file |-> utilIn.file,
                   sent |-> 0, received |-> <<>>, printed |-> FALSE]
    /\ UNCHANGED <<utilIn, cleared, store>>
    /\ UNCHANGED clientVars

\* PersistentPreRun: start the goroutine; then the command runs.
PersistentPreRun ==
    /\ utilIn.name = "update"
    /\ utilOut.name = "none"
    /\ utilOut' = [name |-> "update", main |-> "run", worker |-> "check",
                   updateCh |-> <<>>, info |-> NoUpdate, file |-> utilIn.file,
                   sent |-> 0, received |-> <<>>, printed |-> FALSE]
    /\ UNCHANGED <<utilIn, cleared, store>>
    /\ UNCHANGED clientVars

\* The goroutine evaluates update.CheckForUpdate(version).
checkForUpdate ==
    /\ utilOut.name = "update"
    /\ utilOut.main # "exit"
    /\ utilOut.worker = "check"
    /\ LET r == CheckForUpdate(utilIn.version, utilOut.file, utilIn.answer)
       IN  utilOut' = [utilOut EXCEPT !.worker = "send", !.info = r.info, !.file = r.file]
    /\ UNCHANGED <<utilIn, cleared, store>>
    /\ UNCHANGED clientVars

\* The goroutine sends on updateCh, which has room for one value.
send ==
    /\ utilOut.name = "update"
    /\ utilOut.main # "exit"
    /\ utilOut.worker = "send"
    /\ Len(utilOut.updateCh) < 1
    /\ utilOut' = [utilOut EXCEPT !.worker = "done",
                                  !.updateCh = Append(@, utilOut.info),
                                  !.sent = @ + 1]
    /\ UNCHANGED <<utilIn, cleared, store>>
    /\ UNCHANGED clientVars

\* The command itself: when it fails the post-run hook is not run.
run ==
    /\ utilOut.name = "update"
    /\ utilOut.main = "run"
    /\ utilOut' = [utilOut EXCEPT !.main = IF utilIn.runFails THEN "exit" ELSE "postrun"]
    /\ UNCHANGED <<utilIn, cleared, store>>
    /\ UNCHANGED clientVars

\* PersistentPostRun: receive from updateCh, print the notice, return.
PersistentPostRun ==
    /\ utilOut.name = "update"
    /\ utilOut.main = "postrun"
    /\ utilOut.updateCh # <<>>
    /\ LET info == Head(utilOut.updateCh)
       IN  utilOut' = [utilOut EXCEPT !.main = "exit",
                                      !.updateCh = Tail(@),
                                      !.received = Append(@, info),
                                      !.printed = ~info.nil /\ utilIn.terminal]
    /\ UNCHANGED <<utilIn, cleared, store>>
    /\ UNCHANGED clientVars

NextUpdate ==
    \/ PersistentPreRun
    \/ checkForUpdate
    \/ send
    \/ run
    \/ PersistentPostRun

\* A goroutine that can take a step eventually takes one.
SpecUpdate == InitUpdate /\ [][NextUpdate]_vars /\ WF_vars(NextUpdate)

(* --------------------------- bb auth refresh --------------------------- *)
\* The command `bb auth refresh`, run between the commands that use the
\* client.  "oauth" is the command of part_007, "multi" the one of part_008,
\* which knows the auth-method tag.

RefreshVersions == {"oauth", "multi"}

newCmdRefresh(version, st, c, ans, saveOutcome) ==
    LET l == LoadToken(st)
        tok == l.token
        method == IF tok.AuthMethod = "" THEN AuthMethodOAuth ELSE tok.AuthMethod
        r == RefreshAccessToken(ans)
        newToken == IF version = "multi"
                    THEN [r.token EXCEPT !.AuthMethod = AuthMethodOAuth]
                    ELSE r.token
        stop(err) == [err |-> err, called |-> FALSE, store |-> st, log |-> <<>>]
        called == <<RefreshEvent(c, tok.RefreshToken, ans, r.ok, r.token)>>
    IN  IF l.err # "" \/ tok.AccessToken = NoToken.AccessToken
        THEN stop("not logged in. Run 'bb auth login' to authenticate")
        ELSE IF version = "multi" /\ method # AuthMethodOAuth
        THEN stop("token refresh is only available for OAuth authentication")
        ELSE IF tok.RefreshToken = ""
        THEN stop("no refresh token stored")
        ELSE IF c.OAuthKey = "" \/ c.OAuthSecret = ""
        THEN stop("OAuth credentials not found")
        ELSE IF ~r.ok
        THEN [err |-> "refresh failed", called |-> TRUE, store |-> st, log |-> called]
        ELSE [err |-> IF saveOutcome = "ok" THEN "" ELSE "failed to save refreshed token",
              called |-> TRUE,
              store |-> SaveToken(st, newToken, saveOutcome),
              log |-> called \o <<SaveEvent(newToken, saveOutcome = "ok")>>]

\* The command runs in a process of its own, before, between or after the
\* commands that make calls: when it has exited no client is left, and store0
\* is token.json as the command found it.
authRefresh(version, ans, saveOutcome) ==
    /\ pc \in {"idle", "returned", "exited"}
    /\ calls < MaxCalls
    /\ LET r == newCmdRefresh(version, store, cfg, ans, saveOutcome)
       IN  /\ store' = r.store
           /\ issued' = IF r.called /\ RefreshAccessToken(ans).ok THEN ans.access ELSE issued
           /\ log' = r.log
           /\ result' = IF r.err # "" THEN Failure(r.err, "") ELSE NoResult
    /\ calls' = calls + 1
    /\ pc' = "exited"
    /\ token' = NoToken
    /\ authMethod' = ""
    /\ args' = Get("/user")
    /\ reader' = NilReader
    /\ bodyBytes' = <<>>
    /\ ret' = NoReturn
    /\ token0' = NoToken
    /\ store0' = store
    /\ UNCHANGED <<build, cfg>>
    /\ UNCHANGED utilVars

NextRefresh ==
    \/ Next
    \/ \E version \in RefreshVersions, ans \in TokenEndpointAnswers(issued + 1),
          outcome \in SaveOutcomes : authRefresh(version, ans, outcome)

SpecRefresh == Init /\ [][NextRefresh]_vars

(* ======================================================================= *)
(* auth.Login: the local callback server of the OAuth login.                 *)
(* The goroutine of Login waits in a select on codeCh, errCh and a timer;    *)
(* each request to /callback runs the handler in a goroutine of its own,     *)
(* which writes its page and then sends on codeCh (the request carries a     *)
(* code) or on errCh (it does not); both channels have room for one value.   *)
(* Returning from Login runs the deferred server.Shutdown, which closes the  *)
(* listener and waits, without deadline, until no handler is running.        *)
(* Every goroutine that can take a step eventually takes one.                *)
(* ======================================================================= *)

MaxRequests == 3

InitLogin ==
    /\ ClientUnused
    /\ utilIn \in [name : {"Login"}, browser : BOOLEAN]
    /\ utilOut = NoUtil

\* Login up to the select: the listener, the channels, the server goroutine.
Login ==
    /\ utilIn.name = "Login"
    /\ utilOut.name = "none"
    /\ utilOut' = [name |-> "Login", main |-> "select", server |-> "serving",
                   handlers |-> <<>>, codeCh |-> <<>>, errCh |-> <<>>, result |-> "none"]
    /\ UNCHANGED <<utilIn, cleared, store>>
    /\ UNCHANGED clientVars

\* A request reaches /callback while the listener is open: the handler writes
\* its page and is about to send on codeCh or errCh.
callback(kind) ==
    /\ utilOut.name = "Login"
    /\ utilOut.server = "serving"
    /\ Len(utilOut.handlers) < MaxRequests
    /\ utilOut' = [utilOut EXCEPT !.handlers = Append(@, [kind |-> kind, pc |-> "send"])]
    /\ UNCHANGED <<utilIn, cleared, store>>
    /\ UNCHANGED clientVars

\* A handler sends its code or its error and returns.
handlerSend(i) ==
    /\ utilOut.name = "Login"
    /\ i \in 1..Len(utilOut.handlers)
    /\ utilOut.handlers[i].pc = "send"
    /\ IF utilOut.handlers[i].kind = "code"
       THEN /\ Len(utilOut.codeCh) < 1
            /\ utilOut' = [utilOut EXCEPT !.codeCh = Append(@, i), !.handlers[i].pc = "done"]
       ELSE /\ Len(utilOut.errCh) < 1
            /\ utilOut' = [utilOut EXCEPT !.errCh = Append(@, i), !.handlers[i].pc = "done"]
    /\ UNCHANGED <<utilIn, cleared, store>>
    /\ UNCHANGED clientVars

\* The select of Login: a code, an error, or the timer.  With an error or the
\* timer Login returns, and the deferred Shutdown closes the listener.
wait ==
    /\ utilOut.name = "Login"
    /\ utilOut.main = "select"
    /\ \/ /\ utilOut.codeCh # <<>>
          /\ utilOut' = [utilOut EXCEPT !.codeCh = Tail(@), !.main = "exchange"]
       \/ /\ utilOut.errCh # <<>>
          /\ utilOut' = [utilOut EXCEPT !.errCh = Tail(@), !.main = "shutdown",
                                        !.server = "closing", !.result = "error"]
       \/ utilOut' = [utilOut EXCEPT !.main = "shutdown", !.server = "closing",
                                     !.result = "timeout"]
    /\ UNCHANGED <<utilIn, cleared, store>>
    /\ UNCHANGED clientVars

\* exchangeCode answers with a token or an error; Login returns, and the
\* deferred Shutdown closes the listener.
exchangeCode(ok) ==
    /\ utilOut.name = "Login"
    /\ utilOut.main = "exchange"
    /\ utilOut' = [utilOut EXCEPT !.main = "shutdown", !.server = "closing",
                                  !.result = IF ok THEN "token" ELSE "error"]
    /\ UNCHANGED <<utilIn, cleared, store>>
    /\ UNCHANGED clientVars

\* server.Shutdown(context.Background()) returns once no handler is running;
\* then Login has returned.
Shutdown ==
    /\ utilOut.name = "Login"
    /\ utilOut.main = "shutdown"
    /\ \A i \in 1..Len(utilOut.handlers) : utilOut.handlers[i].pc = "done"
    /\ utilOut' = [utilOut EXCEPT !.main = "returned", !.server = "closed"]
    /\ UNCHANGED <<utilIn, cleared, store>>
    /\ UNCHANGED clientVars

NextLogin ==
    \/ Login
    \/ \E kind \in {"code", "error"} : callback(kind)
    \/ \E i \in 1..MaxRequests : handlerSend(i)
    \/ wait
    \/ \E ok \in BOOLEAN : exchangeCode(ok)
    \/ Shutdown

SpecLogin == InitLogin /\ [][NextLogin]_vars /\ WF_vars(NextLogin)

(* ======================================================================= *)
(* The claims.  Each is stated over the log of the call in progress or just *)
(* returned (the log is cleared when the next call starts).                 *)
(* ======================================================================= *)

Https == Events(log, "http")
Refreshes == Events(log, "refresh")
Saves == Events(log, "save")

\* doRequest has returned (to the public operation, or that one to its caller).
Over == pc \in {"done", "returned"}

\* The first attempt was answered with status s.
FirstStatus(s) == Https # <<>> /\ Https[1].ok /\ Https[1].status = s

\* The credential the call started with is an OAuth credential (tag "oauth",
\* or no tag: a legacy token) / a Basic credential (tag "token").
OAuthCredential == token0.AuthMethod \in {"", AuthMethodOAuth}
BasicCredential == token0.AuthMethod = AuthMethodToken

\* C1: in every call at most two HTTP requests are sent, both to the target
\* URL of the call, and the token refresher is invoked at most once, whatever
\* the server, the token endpoint and the credential store answer.
C1_AtMostTwoAttemptsOneRefresh ==
    /\ Len(Https) <= 2
    /\ Len(Refreshes) <= 1
    /\ \A i \in 1..Len(Https) : Https[i].req.url = args.url

\* C1 witness: a call that sent both attempts, refreshed once, and was answered
\* 401 again.
C1_Witness ==
    /\ pc = "done"
    /\ Len(Https) = 2
    /\ Len(Refreshes) = 1
    /\ Https[2].ok /\ Https[2].status = StatusUnauthorized

\* C2: when the first attempt is answered 401, the refresher is invoked and
\* fails, the call is over with the fatal "session expired" error and exactly
\* one HTTP request has been sent.
C2_RefreshFailureIsFatal ==
    (Refreshes # <<>> /\ ~Refreshes[1].ok) =>
        /\ FirstStatus(StatusUnauthorized)
        /\ Over
        /\ result.kind = "err" /\ result.err = SessionExpired
        /\ Len(Https) = 1
        /\ pc = "returned" => (~ret.hasBody /\ ret.err = SessionExpired)

\* C2 witness: an OAuth credential with a refresh token, 401, the refresher
\* failed, the operation has returned.
C2_Witness ==
    /\ pc = "returned"
    /\ OAuthCredential /\ token0.RefreshToken # ""
    /\ FirstStatus(StatusUnauthorized)
    /\ Refreshes # <<>> /\ ~Refreshes[1].ok
    /\ ret.err = SessionExpired

\* C3: when the token refresher returns an error, SaveToken is not called and
\* both token.json and the in-memory credential are what they were when the
\* call started.
C3_RefreshFailureChangesNothing ==
    (Refreshes # <<>> /\ ~Refreshes[1].ok) =>
        /\ Saves = <<>>
        /\ store = store0
        /\ token = token0

\* C3 witness: the refresher was invoked with the stored refresh token and failed.
C3_Witness ==
    /\ pc = "done"
    /\ Len(Refreshes) = 1 /\ ~Refreshes[1].ok
    /\ Refreshes[1].used = token0.RefreshToken
    /\ store0 = <<token0>>

\* The token endpoint answered the refresh of this call with a token.
Refreshed == Refreshes # <<>> /\ Refreshes[1].ok

\* C4: after a successful refresh the credential handed to SaveToken and kept
\* in memory has the access token the refresher returned, and its refresh
\* token is the returned one when that is non-empty and otherwise the refresh
\* token the call started with; when SaveToken succeeds token.json holds it.
C4_RefreshedCredential ==
    Refreshed =>
        LET returned == Refreshes[1].tok
            keptRefresh == IF returned.RefreshToken # "" THEN returned.RefreshToken
                           ELSE token0.RefreshToken
        IN  /\ token.AccessToken = returned.AccessToken
            /\ token.RefreshToken = keptRefresh
            /\ Len(Saves) = 1
            /\ Saves[1].tok = token
            /\ Saves[1].ok => store = <<token>>

\* C4 witness: the version of part_002:354-365 started with refresh token R1,
\* the refresher returned a token without refresh token, and the credential
\* saved and kept in memory has lost R1.
C4_Witness ==
    /\ build = "unbuffered"
    /\ token0.RefreshToken = "R1"
    /\ Refreshed /\ Refreshes[1].tok.RefreshToken = ""
    /\ Len(Saves) = 1 /\ Saves[1].ok
    /\ token.RefreshToken = "" /\ store = <<token>>

\* C5: when the first attempt is answered 401 and the refresh succeeds, the
\* retried request has the method, the URL and the content type of the first
\* and a body equal, byte for byte, to the body B the caller passed.
C5_RetryReplaysRequest ==
    Len(Https) = 2 =>
        /\ Https[2].req.method = args.method /\ Https[1].req.method = args.method
        /\ Https[2].req.url = args.url /\ Https[1].req.url = args.url
        /\ Https[2].req.contentType = args.contentType
        /\ Https[1].req.contentType = args.contentType
        /\ Https[1].req.body = Unread(args.body)
        /\ Https[2].req.body = Unread(args.body)

\* C5 witness: the version of part_002:318-352 sent a non-empty body with the
\* first attempt and an empty one with the retry.
C5_Witness ==
    /\ build = "unbuffered"
    /\ Len(Https) = 2
    /\ Https[1].req.body = Unread(args.body) /\ Https[1].req.body # <<>>
    /\ Https[2].req.body = <<>>

\* C6: a second HTTP request is sent only after the refresher has returned a
\* token and SaveToken has succeeded, in that order, and its Authorization
\* header is the Bearer header of the access token the refresher returned, not
\* the header of the first attempt.
C6_RetryCarriesRefreshedToken ==
    Len(Https) = 2 =>
        /\ Len(log) = 4
        /\ log[1].type = "http" /\ log[1].ok /\ log[1].status = StatusUnauthorized
        /\ log[2].type = "refresh" /\ log[2].ok
        /\ log[3].type = "save" /\ log[3].ok
        /\ log[4].type = "http"
        /\ log[4].req.auth = Bearer(log[2].tok.AccessToken)
        /\ log[4].req.auth # log[1].req.auth
        /\ log[4].req.auth.cred # token0.AccessToken

\* C6 witness: the retry has been sent with the new token after a refresh that
\* replaced access token 1.
C6_Witness ==
    /\ pc = "done"
    /\ Len(Https) = 2
    /\ Https[1].req.auth = Bearer(1)
    /\ Https[2].req.auth = Bearer(2)
    /\ Refreshed

\* C7: once the retry has been sent the call is over and what doRequest
\* returns is the outcome of the retry, a 401, any other status or a transport
\* failure alike; there is one refresh and no third attempt.
C7_SecondAttemptIsFinal ==
    Len(Https) = 2 =>
        /\ Over
        /\ Len(Refreshes) = 1
        /\ IF Https[2].ok
           THEN result = Response(Https[2].status, Https[2].body)
           ELSE result.kind = "err" /\ result.err = "transport"

\* C7 witness: the retry was answered 401 again and the operation has returned
\* that as its API error.
C7_Witness ==
    /\ pc = "returned"
    /\ Len(Https) = 2
    /\ Https[2].ok /\ Https[2].status = StatusUnauthorized
    /\ result = Response(StatusUnauthorized, Https[2].body)
    /\ ret.err = "API error" /\ ret.status = StatusUnauthorized

\* C7 witness of the other outcome is covered by C1_Witness; a transport
\* failure of the retry:
C7_TransportFailureReached ==
    pc = "done" /\ Len(Https) = 2 /\ ~Https[2].ok /\ result.err = "transport"

\* C8 as stated: a 401 answered to a call made with a Basic credential (tag
\* "token") never invokes the refresher or SaveToken and is not retried:
\* doRequest returns that 401 response and the operation returns it as its
\* API error.
C8_BasicAlwaysApiError ==
    (BasicCredential /\ FirstStatus(StatusUnauthorized)) =>
        /\ Refreshes = <<>>
        /\ Saves = <<>>
        /\ Len(Https) = 1
        /\ Over => result = Response(StatusUnauthorized, Https[1].body)
        /\ pc = "returned" =>
              /\ ret.err = "API error" /\ ret.status = StatusUnauthorized
              /\ ret.text = Https[1].body

\* C8: a 401 answered to a call made with a Basic credential (tag "token")
\* never invokes the refresher or SaveToken and is not retried: doRequest
\* returns that 401 response and the operation, once it has read the body of
\* the response, returns it as its API error.
C8_BasicNeverRefreshes ==
    (BasicCredential /\ FirstStatus(StatusUnauthorized)) =>
        /\ Refreshes = <<>>
        /\ Saves = <<>>
        /\ Len(Https) = 1
        /\ Over => result = Response(StatusUnauthorized, Https[1].body)
        /\ (pc = "returned" /\ ret.err # ReadFailed) =>
              /\ ret.err = "API error" /\ ret.status = StatusUnauthorized
              /\ ret.text = Https[1].body

\* C8 witness: an app password stored with its username was answered 401, and
\* the operation has returned that response as its API error after the one
\* request.
C8_Witness ==
    /\ pc = "returned"
    /\ BasicCredential /\ token0.Username = "bob" /\ token0.RefreshToken = ""
    /\ FirstStatus(StatusUnauthorized)
    /\ Len(Https) = 1 /\ Refreshes = <<>> /\ Saves = <<>>
    /\ ret.err = "API error" /\ ret.status = StatusUnauthorized

\* C8: the body of the 401 answered to a Basic credential could not be read,
\* and the operation has returned the read error.
C8_ReadFailedReached ==
    /\ pc = "returned"
    /\ BasicCredential
    /\ FirstStatus(StatusUnauthorized)
    /\ ret.err = ReadFailed

\* C9: a 401 answered to a call whose credential has an empty refresh token
\* invokes neither the refresher nor SaveToken, is not retried, and is
\* returned as it came; the credential is untouched.
C9_NoRefreshTokenNoRefresh ==
    (token0.RefreshToken = "" /\ FirstStatus(StatusUnauthorized)) =>
        /\ Refreshes = <<>>
        /\ Saves = <<>>
        /\ Len(Https) = 1
        /\ Over
        /\ result = Response(StatusUnauthorized, Https[1].body)
        /\ token = token0 /\ store = store0

\* C9 witness: an OAuth credential without refresh token (as bb auth login
\* --with-token stores it) was answered 401.
C9_Witness ==
    /\ pc = "done"
    /\ OAuthCredential /\ token0.RefreshToken = ""
    /\ FirstStatus(StatusUnauthorized)
    /\ result.status = StatusUnauthorized

\* C10: a first response with a status other than 401 is what doRequest
\* returns: no refresh, no SaveToken, no second attempt, whatever the
\* credential is.
C10_Non401ReturnedAsIs ==
    (Https # <<>> /\ Https[1].ok /\ Https[1].status # StatusUnauthorized) =>
        /\ Len(log) = 1
        /\ Over
        /\ result = Response(Https[1].status, Https[1].body)
        /\ token = token0 /\ store = store0

\* C10 witness: a 403 answered to an OAuth credential that has a refresh token
\* and a configured application credential.
C10_Witness ==
    /\ pc = "done"
    /\ OAuthCredential /\ token0.RefreshToken # "" /\ ~notConfigured(cfg)
    /\ Https # <<>> /\ Https[1].ok /\ Https[1].status = 403
    /\ result.status = 403

\* The call started with an OAuth credential that has a refresh token and the
\* OAuth application credential lacks its key or its secret.
C11_RefreshNeededNotConfigured ==
    /\ OAuthCredential /\ token0.RefreshToken # ""
    /\ FirstStatus(StatusUnauthorized)
    /\ (cfg.OAuthKey = "" \/ cfg.OAuthSecret = "")

\* C11: when a 401 calls for a refresh and the OAuth key or secret is empty,
\* the token refresher is not invoked, SaveToken is not called, no second
\* request is sent, the credential in memory and in token.json is unchanged,
\* and the call ends with the fatal "session expired" error.
C11_MissingAppCredentialIsFatal ==
    C11_RefreshNeededNotConfigured =>
        /\ Refreshes = <<>>
        /\ Saves = <<>>
        /\ Len(Https) = 1
        /\ token = token0 /\ store = store0
        /\ pc # "refresh" =>
              /\ Over
              /\ result = Failure(SessionExpired, "OAuth credentials not configured")
        /\ pc = "returned" => (~ret.hasBody /\ ret.err = SessionExpired)

\* C11 witness: such a call has returned its error to the caller.
C11_Witness ==
    /\ pc = "returned"
    /\ C11_RefreshNeededNotConfigured
    /\ ret.err = SessionExpired
    /\ ret.text = "OAuth credentials not configured"

\* C12: an HTTP attempt that fails at the transport level is the last thing the
\* call does: no request and no refresh follow it, doRequest returns the
\* transport error, and when it is the first attempt the credential in memory
\* and in token.json is unchanged.
C12_TransportFailureIsImmediate ==
    \A i \in 1..Len(log) :
        (log[i].type = "http" /\ ~log[i].ok) =>
            /\ i = Len(log)
            /\ Over
            /\ result = Failure("transport", "")
            /\ pc = "returned" => (~ret.hasBody /\ ret.err = "transport")
            /\ i = 1 => (token = token0 /\ store = store0)

\* C12 witness: the first attempt of a call whose credential could be
\* refreshed failed at the transport level and the operation has returned.
C12_Witness ==
    /\ pc = "returned"
    /\ OAuthCredential /\ token0.RefreshToken # "" /\ ~notConfigured(cfg)
    /\ Len(log) = 1 /\ log[1].type = "http" /\ ~log[1].ok
    /\ ret.err = "transport"

\* C12, the retry: a transport failure of the second attempt is reached too.
C12_RetryFailureReached ==
    pc = "returned" /\ Len(Https) = 2 /\ ~Https[2].ok /\ ret.err = "transport"

\* The public operation has returned after doRequest handed it a response.
FinalResponse == pc = "returned" /\ result.kind = "resp"

\* C13 as stated: whenever the final response has a status in [400, 599) the
\* operation returns no body and an API error carrying the status code and the
\* body text of the response; whenever the status is below 400 it returns the
\* bytes of the response body and no error.
C13_ApiErrorOrBody ==
    FinalResponse =>
        IF result.status >= 400 /\ result.status < 599
        THEN /\ ~ret.hasBody
             /\ ret.err = "API error"
             /\ ret.status = result.status /\ ret.text = result.body
        ELSE result.status < 400 => (ret.body = result.body /\ ret.err = "")

\* C13 amended: the same whenever the body of the final response has been read;
\* Delete answered 204 returns no bytes and no error without reading the body,
\* and a body that cannot be read yields the read error instead.
C13_ApiErrorOrBodyWhenRead ==
    FinalResponse =>
        IF args.op = "Delete" /\ result.status = StatusNoContent
        THEN ret = NoReturn
        ELSE IF ret.err = ReadFailed
        THEN ~ret.hasBody
        ELSE IF result.status >= 400 /\ result.status < 599
        THEN /\ ~ret.hasBody
             /\ ret.err = "API error"
             /\ ret.status = result.status /\ ret.text = result.body
        ELSE result.status < 400 =>
                 (ret.hasBody /\ ret.body = result.body /\ ret.err = "")

\* C13 witness: a Post answered 500 with a body has returned the API error
\* with that status and that body text.
C13_Witness ==
    /\ FinalResponse
    /\ args.op = "Post"
    /\ result.status = 500 /\ result.body = "{}"
    /\ ret.err = "API error" /\ ret.status = 500 /\ ret.text = "{}"

\* C13, the other branch: a GetRaw answered 200 has returned the body.
C13_BodyReturned ==
    /\ FinalResponse
    /\ args.op = "GetRaw"
    /\ result.status = StatusOK /\ ret.hasBody /\ ret.body = "{}" /\ ret.err = ""

\* C14: an operation whose final response has status 204 returns an empty
\* result and no error, whatever bytes the body of the response holds (the
\* body is neither read nor handed back for decoding).
C14_NoContentIsEmpty ==
    (FinalResponse /\ result.status = StatusNoContent) =>
        (ret.body = "" /\ ret.err = "")

\* C14 witness: a Get answered 204 with bytes in the body has read the body and
\* returned those bytes to its caller.
C14_Witness ==
    /\ FinalResponse
    /\ args.op = "Get"
    /\ result.status = StatusNoContent /\ result.body = "{}"
    /\ ret.hasBody /\ ret.body = "{}" /\ ret.err = ""

\* C14, Delete: answered 204 with bytes in the body it has returned nothing.
C14_DeleteReached ==
    /\ FinalResponse
    /\ args.op = "Delete"
    /\ result.status = StatusNoContent /\ result.body = "{}"
    /\ ret = NoReturn

\* C15: every HTTP request of a call carries the Authorization header of the
\* credential in memory when it is sent (the one the call started with for the
\* first attempt, the refreshed one for the retry): Bearer with the access
\* token for an OAuth credential, Basic with the username and the stored
\* secret for a Basic credential.
C15_AuthorizationFromCredential ==
    \A i \in 1..Len(Https) :
        LET cred == IF i = 1 THEN token0 ELSE token
        IN  /\ OAuthCredential => Https[i].req.auth = Bearer(cred.AccessToken)
            /\ BasicCredential =>
                   Https[i].req.auth = Basic(cred.Username, cred.AccessToken)

\* C15 witness: client.go has sent the secret of a Basic credential (tag
\* "token", user bob) as a Bearer header.
C15_Witness ==
    /\ build = "client"
    /\ BasicCredential /\ token0.Username = "bob"
    /\ Https # <<>>
    /\ Https[1].req.auth = Bearer(token0.AccessToken)

\* C15, the versions with the tag: the same credential sent as HTTP Basic, and
\* a retry carrying the Bearer header of the refreshed OAuth credential.
C15_BasicReached ==
    /\ build = "tagged"
    /\ BasicCredential
    /\ Https # <<>>
    /\ Https[1].req.auth = Basic("bob", token0.AccessToken)

C15_RetryReached ==
    /\ build = "tagged"
    /\ OAuthCredential
    /\ Len(Https) = 2
    /\ Https[2].req.auth = Bearer(token.AccessToken)
    /\ token # token0

\* C16: in every call SaveToken is called at most once, only after the token
\* refresher has returned a token in that call, and with the refreshed
\* credential, which is the one kept in memory; a call without refresh writes
\* neither token.json nor c.token.
C16_SaveOnceAfterRefresh ==
    /\ Len(Saves) <= 1
    /\ Saves # <<>> =>
          /\ Refreshed
          /\ \E i, j \in 1..Len(log) :
                 i < j /\ log[i].type = "refresh" /\ log[i].ok /\ log[j].type = "save"
          /\ Saves[1].tok = token
          /\ Saves[1].tok.AccessToken = Refreshes[1].tok.AccessToken
    /\ ~Refreshed => (Saves = <<>> /\ token = token0 /\ store = store0)

\* C16 witness: a call that refreshed has saved the refreshed credential once
\* and token.json holds it.
C16_Witness ==
    /\ pc = "returned"
    /\ Refreshed
    /\ Len(Saves) = 1 /\ Saves[1].ok
    /\ store = <<token>> /\ token # token0

\* C16, no refresh: a call answered 200 has left the credential alone.
C16_NoRefreshReached ==
    /\ pc = "returned"
    /\ FirstStatus(StatusOK)
    /\ log = <<Https[1]>>
    /\ token = token0 /\ store = store0

\* C17: RefreshAccessToken returns a credential exactly when the token
\* endpoint answered with status 200 and a body that decodes as the token
\* JSON, and the credential is the decoded one; a transport failure, any other
\* status or an undecodable body yields an error and no credential.
C17_TokenIffOkAndDecodable ==
    \A i \in 1..Len(Refreshes) :
        LET e == Refreshes[i]
            good == e.grant.reached /\ e.grant.status = StatusOK /\ e.grant.decodes
        IN  /\ e.ok <=> good
            /\ good => e.tok = TokenData(e.grant.access, e.grant.refresh, "", "")
            /\ ~good => (e.tok = NoToken /\ Over /\ result.kind = "err"
                         /\ result.err = SessionExpired /\ result.cause # "")

\* C17 witness: the endpoint answered 200 with a decodable body and
\* RefreshAccessToken returned the credential in it.
C17_Witness ==
    /\ Refreshes # <<>>
    /\ Refreshes[1].grant.reached /\ Refreshes[1].grant.status = StatusOK
    /\ Refreshes[1].grant.decodes
    /\ Refreshes[1].ok
    /\ Refreshes[1].tok.AccessToken = 2 /\ Refreshes[1].tok.RefreshToken = "R2"

\* C17, the failures: a 201 with a decodable body, a 200 with an undecodable
\* body and a transport failure each ended in an error.
C17_Non200Reached ==
    /\ Refreshes # <<>> /\ ~Refreshes[1].ok
    /\ Refreshes[1].grant.status = 201 /\ Refreshes[1].grant.decodes
    /\ result.cause = "token refresh failed (HTTP)"

C17_UndecodableReached ==
    /\ Refreshes # <<>> /\ ~Refreshes[1].ok
    /\ Refreshes[1].grant.status = StatusOK /\ ~Refreshes[1].grant.decodes
    /\ result.cause = "failed to parse token response"

C17_TransportReached ==
    /\ Refreshes # <<>> /\ ~Refreshes[1].ok
    /\ ~Refreshes[1].grant.reached
    /\ result.cause = "token refresh failed"

\* C18: ClearToken returns no error whenever the file system does not fail,
\* whether token.json holds a credential or not and however many times in a
\* row it is called; after it there is no stored credential and LoadToken
\* returns an error until SaveToken is called; `bb auth logout` succeeds the
\* same way when there is nothing to clear.
C18_ClearTokenIdempotent ==
    /\ (utilIn.name = "ClearToken" /\ utilIn.fs = "ok") =>
           (utilOut.err = "" /\ store = <<>>)
    /\ (utilIn.name = "logout" /\ utilIn.fs = "ok") =>
           (utilOut.err = "" /\ store = <<>>)
    /\ cleared > 0 => (store = <<>> /\ LoadToken(store).err # "")
    /\ (utilIn.name = "LoadToken" /\ cleared > 0) => utilOut.err # ""

\* C18 witness: ClearToken has succeeded twice in a row, the second time with
\* nothing stored.
C18_Witness ==
    /\ utilIn.name = "ClearToken"
    /\ cleared = 2
    /\ utilOut.err = ""
    /\ store = <<>>

\* C18, logout: both versions of the command have succeeded after a clear.
C18_LogoutReached ==
    /\ utilIn.name = "logout" /\ utilIn.version = "checking"
    /\ cleared = 2
    /\ utilOut.err = "" /\ utilOut.message = "Already logged out."

C18_DirectLogoutReached ==
    /\ utilIn.name = "logout" /\ utilIn.version = "direct"
    /\ cleared = 2
    /\ utilOut.err = ""

\* C18, LoadToken: it has failed after a clear, and succeeded after SaveToken.
C18_LoadFailsReached ==
    utilIn.name = "LoadToken" /\ cleared > 0 /\ utilOut.err # ""

C18_LoadAfterSaveReached ==
    utilIn.name = "LoadToken" /\ cleared = 0 /\ utilOut.err = "" /\ store = <<utilOut.token>>

\* A text with no character other than white space (the empty text included).
Blank(s) == \A i \in 1..Len(s) : s[i] \in {" ", "\n", "\t", "\r"}

\* C19: with none of --body, --body-file, --editor set ResolveBody returns
\* "must provide ...", with two or three set "specify only one of ...", and
\* with exactly one set the text of that source, unchanged, unless the
\* source cannot be read or its text is empty or white space only, which is an
\* error.
C19_ExactlyOneBodySource ==
    utilOut.name = "ResolveBody" =>
        LET in == utilIn
            set == {f \in {"body", "bodyFile", "editor"} :
                        \/ f = "body" /\ in.bodyChanged
                        \/ f = "bodyFile" /\ in.bodyFileChanged
                        \/ f = "editor" /\ in.editorChanged}
            n == Cardinality(set)
            src == IF in.bodyChanged THEN [failed |-> FALSE, text |-> in.body]
                   ELSE IF in.bodyFileChanged
                   THEN (IF in.bodyFile = "-" THEN in.stdin ELSE in.file)
                   ELSE in.edited
            selection == {"must provide --body, --body-file, or --editor",
                          "specify only one of --body, --body-file, or --editor"}
        IN  /\ n = 0 => /\ utilOut.err = "must provide --body, --body-file, or --editor"
                        /\ utilOut.value = <<>>
            /\ n >= 2 => /\ utilOut.err = "specify only one of --body, --body-file, or --editor"
                         /\ utilOut.value = <<>>
            /\ n = 1 => IF src.failed \/ Blank(src.text)
                        THEN /\ utilOut.err # "" /\ utilOut.err \notin selection
                             /\ utilOut.value = <<>>
                        ELSE utilOut.err = "" /\ utilOut.value = src.text

\* C19 witness: --body alone, with text around white space, is returned as it
\* was given.
C19_Witness ==
    /\ utilOut.name = "ResolveBody"
    /\ utilIn.bodyChanged /\ ~utilIn.bodyFileChanged /\ ~utilIn.editorChanged
    /\ utilIn.body = <<" ", "a">>
    /\ utilOut.err = "" /\ utilOut.value = <<" ", "a">>

\* C19, the other cases: all three flags set; none set; a white-space-only
\* --body; an empty body file; --editor=false set alone opens the editor.
C19_AllThreeReached ==
    /\ utilOut.name = "ResolveBody"
    /\ utilIn.bodyChanged /\ utilIn.bodyFileChanged /\ utilIn.editorChanged
    /\ utilOut.err = "specify only one of --body, --body-file, or --editor"

C19_NoneReached ==
    /\ utilOut.name = "ResolveBody"
    /\ ~utilIn.bodyChanged /\ ~utilIn.bodyFileChanged /\ ~utilIn.editorChanged
    /\ utilIn.body = <<"a">>
    /\ utilOut.err = "must provide --body, --body-file, or --editor"

C19_BlankBodyReached ==
    /\ utilOut.name = "ResolveBody"
    /\ utilIn.bodyChanged /\ utilIn.body = <<" ", "\n">>
    /\ utilOut.err = "body cannot be blank"

C19_EmptyFileReached ==
    /\ utilOut.name = "ResolveBody"
    /\ utilIn.bodyFileChanged /\ utilIn.bodyFile = "comment.md" /\ utilIn.file = ReadOK(<<>>)
    /\ utilOut.err = "body file is empty"

C19_EditorReached ==
    /\ utilOut.name = "ResolveBody"
    /\ utilIn.editorChanged /\ ~utilIn.editor /\ utilIn.edited = ReadOK(<<"e">>)
    /\ utilOut.err = "" /\ utilOut.value = <<"e">>

\* Truncate as the claim has it, on characters.
C20_Expected(chars, maxLen) ==
    IF Len(chars) <= maxLen THEN chars
    ELSE IF maxLen <= 3 THEN SubSeq(chars, 1, maxLen)
    ELSE SubSeq(chars, 1, maxLen - 3) \o <<".", ".", ".">>

\* C20: Truncate(s, maxLen) returns s when s has at most maxLen characters,
\* its first maxLen characters when maxLen <= 3, and otherwise its first
\* maxLen-3 characters followed by "..."; the result is a whole number of
\* characters, at most maxLen of them.
C20_TruncateCountsCharacters ==
    utilOut.name = "Truncate" =>
        /\ utilOut.bytes = UTF8(C20_Expected(utilIn.chars, utilIn.maxLen))
        /\ \E chars \in RuneStringsUpTo(MaxMaxLen) \cup
                        {C20_Expected(utilIn.chars, utilIn.maxLen)} :
               Len(chars) <= utilIn.maxLen /\ utilOut.bytes = UTF8(chars)

\* C20 witness: three three-byte characters and maxLen 3: Truncate has
\* returned the first character only, not the string.
C20_Witness ==
    /\ utilOut.name = "Truncate"
    /\ utilIn.chars = <<"w", "w", "w">> /\ utilIn.maxLen = 3
    /\ utilOut.bytes = UTF8(<<"w">>)

\* C20, a split character: two three-byte characters and maxLen 5 give the
\* first two bytes of the first character followed by "...".
C20_SplitReached ==
    /\ utilOut.name = "Truncate"
    /\ utilIn.chars = <<"w", "w">> /\ utilIn.maxLen = 5
    /\ utilOut.bytes = <<<<"w", 1>>, <<"w", 2>>>> \o UTF8(<<".", ".", ".">>)

\* C20 on ASCII strings only, where bytes and characters coincide.
C20_TruncateAscii ==
    (utilOut.name = "Truncate" /\ \A i \in 1..Len(utilIn.chars) : utilIn.chars[i] = "a") =>
        utilOut.bytes = UTF8(C20_Expected(utilIn.chars, utilIn.maxLen))

\* C21 as stated, on characters: a token of four characters or fewer is
\* rendered as "****", and a longer one as its first four characters followed
\* by min(length-4, 32) asterisks.
C21_MaskCountsCharacters ==
    utilOut.name = "maskToken" =>
        LET chars == utilIn.chars
        IN  IF Len(chars) <= 4 THEN utilOut.bytes = UTF8(<<"*", "*", "*", "*">>)
            ELSE utilOut.bytes =
                    UTF8(SubSeq(chars, 1, 4)) \o
                    UTF8(Repeat("*", IF Len(chars) - 4 < 32 THEN Len(chars) - 4 ELSE 32))

\* C21: maskToken never reveals more than the first four bytes of a token, so
\* never more than its first four characters: a token of four bytes or fewer
\* is rendered as "****", and a longer token as its first four bytes followed
\* by min(length-4, 32) asterisks, the length in bytes; no byte at position
\* five or later appears in the output.
C21_MaskRevealsFourBytes ==
    utilOut.name = "maskToken" =>
        LET tok == UTF8(utilIn.chars)
            out == utilOut.bytes
            stars == IF Len(tok) - 4 < 32 THEN Len(tok) - 4 ELSE 32
        IN  /\ Len(tok) <= 4 => out = <<Star, Star, Star, Star>>
            /\ Len(tok) > 4 =>
                /\ Len(out) = 4 + stars
                /\ \A i \in 1..4 : out[i] = tok[i]
                /\ \A i \in 5..Len(out) : out[i] = Star
            /\ \A i \in 1..Len(out) : out[i] # Star => (i <= 4 /\ out[i] = tok[i])

\* C21 witness: a token of 37 ASCII letters has been masked to its first four
\* letters and 32 asterisks.
C21_Witness ==
    /\ utilOut.name = "maskToken"
    /\ utilIn.chars = <<"a", "a", "a">> \o Repeat("b", 34)
    /\ utilOut.bytes = UTF8(<<"a", "a", "a", "b">>) \o Repeat(Star, 32)

\* C21, two characters of three bytes each: the token has been rendered as the
\* first character, one byte of the second and two asterisks.
C21_TwoCharactersReached ==
    /\ utilOut.name = "maskToken"
    /\ utilIn.chars = <<"w", "w">>
    /\ utilOut.bytes = <<<<"w", 1>>, <<"w", 2>>, <<"w", 3>>, <<"w", 1>>, Star, Star>>

\* C21 on ASCII tokens only, where bytes and characters coincide.
C21_MaskAscii ==
    (utilOut.name = "maskToken" /\ \A i \in 1..Len(utilIn.chars) : utilIn.chars[i] # "w") =>
        IF Len(utilIn.chars) <= 4 THEN utilOut.bytes = UTF8(<<"*", "*", "*", "*">>)
        ELSE utilOut.bytes =
                UTF8(SubSeq(utilIn.chars, 1, 4)) \o
                UTF8(Repeat("*", IF Len(utilIn.chars) - 4 < 32 THEN Len(utilIn.chars) - 4 ELSE 32))

\* The value of BB_HTTP_TIMEOUT read as a positive integer: decimal digits,
\* not all zero, after an optional plus sign.
C22_PositiveInteger(env) ==
    LET s == IF env.set /\ env.value # <<>> /\ env.value[1] = "+" THEN Tail(env.value)
             ELSE env.value
    IN  /\ env.set
        /\ s # <<>>
        /\ \A i \in 1..Len(s) : IsDigit(s[i])
        /\ \E i \in 1..Len(s) : s[i] # "0"

C22_Seconds(env) ==
    LET s == IF env.value[1] = "+" THEN Tail(env.value) ELSE env.value
    IN  Canon([i \in 1..Len(s) |-> DigitOf(s[i])])

\* C22: NewClient sets the HTTP client timeout to the BB_HTTP_TIMEOUT value in
\* seconds when that variable is a positive integer, and to the 30-second
\* default when it is unset, empty, non-numeric, zero or negative.
C22_TimeoutFromEnv ==
    utilOut.name = "NewClient" =>
        IF C22_PositiveInteger(utilIn.env)
        THEN utilOut.Timeout = Duration(FALSE, C22_Seconds(utilIn.env) \o Repeat(0, 9))
        ELSE utilOut.Timeout = Duration(FALSE, <<3, 0>> \o Repeat(0, 9))

\* C22 witness: NewClient of the version that never reads BB_HTTP_TIMEOUT has
\* built a client without a timeout, the variable being 13.
C22_Witness ==
    /\ utilOut.name = "NewClient"
    /\ utilIn.build = "unbuffered"
    /\ utilIn.env = SetTo(<<"1", "3">>)
    /\ utilOut.Timeout = Duration(FALSE, <<>>)

\* C22, overflow: with BB_HTTP_TIMEOUT=9223372037 the product with
\* time.Second has wrapped to a negative Duration.
C22_OverflowReached ==
    /\ utilOut.name = "NewClient"
    /\ utilIn.build = "client"
    /\ utilIn.env = SetTo(Itoa(<<9, 2, 2, 3, 3, 7, 2, 0, 3, 7>>))
    /\ utilOut.Timeout =
         Duration(TRUE, <<9, 2, 2, 3, 3, 7, 2, 0, 3, 6, 7, 0, 9, 5, 5, 1, 6, 1, 6>>)

\* C22, a value in range in a version that reads the variable: 13 seconds.
C22_ThirteenReached ==
    /\ utilOut.name = "NewClient"
    /\ utilIn.build = "tagged"
    /\ utilIn.env = SetTo(<<"1", "3">>)
    /\ utilOut.Timeout = Duration(FALSE, <<1, 3>> \o Repeat(0, 9))

\* C22 restricted to the versions that read BB_HTTP_TIMEOUT and to values of
\* at most 9223372036 seconds, which an int64 of nanoseconds can hold.
C22_TimeoutInRange ==
    (/\ utilOut.name = "NewClient"
     /\ utilIn.build # "unbuffered"
     /\ C22_PositiveInteger(utilIn.env) =>
            Less(C22_Seconds(utilIn.env), <<9, 2, 2, 3, 3, 7, 2, 0, 3, 7>>))
    => IF C22_PositiveInteger(utilIn.env)
       THEN utilOut.Timeout = Duration(FALSE, C22_Seconds(utilIn.env) \o Repeat(0, 9))
       ELSE utilOut.Timeout = Duration(FALSE, <<3, 0>> \o Repeat(0, 9))

\* A version string read as a number: the digits after one leading "v".
C23_Number(v) ==
    LET s == IF v # <<>> /\ v[1] = "v" THEN Tail(v) ELSE v
    IN  IF s # <<>> /\ \A i \in 1..Len(s) : IsDigit(s[i])
        THEN DigitOf(s[1]) ELSE 0

\* The latest release CheckForUpdate knows of: the cached one when the cache
\* is usable, the fetched one otherwise.
C23_LatestKnown ==
    IF utilIn.file.kind = "valid" /\ utilIn.file.age <= 24
    THEN utilIn.file.LatestVersion
    ELSE IF utilIn.answer.reached /\ utilIn.answer.status = 200 /\ utilIn.answer.decodes
    THEN utilIn.answer.TagName
    ELSE <<>>

C23_Checked == utilOut.name = "update" /\ utilOut.worker \in {"send", "done"}

\* C23: CheckForUpdate reports an update only when a version newer than the
\* current one is available; it returns nil when the current version is "dev"
\* or empty, when it is up to date with the latest known release (a leading
\* "v" ignored on both), and when the check fails.
C23_UpdateOnlyWhenNewer ==
    C23_Checked =>
        /\ ~utilOut.info.nil => C23_Number(C23_LatestKnown) > C23_Number(utilIn.version)
        /\ (\/ utilIn.version \in {<<>>, <<"d", "e", "v">>}
            \/ C23_LatestKnown = <<>>
            \/ C23_Number(C23_LatestKnown) = C23_Number(utilIn.version))
           => utilOut.info.nil

\* C23 witness: version 2 with a fresh cache naming release v1 has been
\* reported as an update from 2 to 1.
C23_Witness ==
    /\ C23_Checked
    /\ utilIn.version = <<"2">>
    /\ utilIn.file = [kind |-> "valid", LatestVersion |-> <<"v", "1">>, age |-> 0]
    /\ utilOut.info = UpdateInfo(<<"2">>, <<"1">>)

\* C23, the cases of nil only: "dev" or empty, up to date, check failed.
C23_NilCases ==
    C23_Checked =>
        ((\/ utilIn.version \in {<<>>, <<"d", "e", "v">>}
          \/ C23_LatestKnown = <<>>
          \/ C23_Number(C23_LatestKnown) = C23_Number(utilIn.version))
         => utilOut.info.nil)

\* C23: a newer release fetched after an expired cache has been reported and
\* the cache rewritten.
C23_FetchedReached ==
    /\ C23_Checked
    /\ utilIn.version = <<"v", "1">>
    /\ utilIn.file.kind = "valid" /\ utilIn.file.age = 25
    /\ utilOut.info = UpdateInfo(<<"1">>, <<"2">>)
    /\ utilOut.file = [kind |-> "valid", LatestVersion |-> <<"v", "2">>, age |-> 0]

\* C23: the same version with and without the "v" gives nil.
C23_UpToDateReached ==
    /\ C23_Checked
    /\ utilIn.version = <<"v", "2">>
    /\ utilIn.file.kind = "missing"
    /\ utilIn.answer.reached /\ utilIn.answer.decodes /\ utilIn.answer.status = 200
    /\ utilIn.answer.TagName = <<"2">>
    /\ utilOut.info.nil

\* C24: when the token refresher succeeds but SaveToken fails, the call is
\* over with an error and the original request is not sent again.
C24_SaveFailureIsFatal ==
    (Refreshes # <<>> /\ Refreshes[1].ok /\ Saves # <<>> /\ ~Saves[1].ok) =>
        /\ Over
        /\ result.kind = "err" /\ result.err = SessionExpired
        /\ Len(Https) = 1
        /\ log[Len(log)].type = "save"
        /\ pc = "returned" => (~ret.hasBody /\ ret.err = SessionExpired)

\* C24 witness: a 401, a successful refresh, a failed save, and the operation
\* has returned the error after its single request.
C24_Witness ==
    /\ pc = "returned"
    /\ FirstStatus(StatusUnauthorized)
    /\ Len(Refreshes) = 1 /\ Refreshes[1].ok
    /\ Len(Saves) = 1 /\ ~Saves[1].ok
    /\ Len(Https) = 1
    /\ ret.err = SessionExpired

\* C25: whenever a call returns, with a response or with any error, the
\* in-memory credential of the client is the credential in token.json,
\* provided it was when the call started.
C25_MemoryEqualsStore ==
    (pc = "returned" /\ store0 = <<token0>>) => store = <<token>>

\* C25 witness: the call started with memory and store equal, refreshed, the
\* save failed leaving the old file, and the call has returned: the client
\* holds the new credential, token.json the old one.
C25_Witness ==
    /\ pc = "returned"
    /\ store0 = <<token0>>
    /\ Len(Refreshes) = 1 /\ Refreshes[1].ok
    /\ Len(Saves) = 1 /\ ~Saves[1].ok
    /\ token # token0
    /\ store = <<token0>>

\* C25 without the failed save: memory and store stay equal.
C25_EqualUnlessSaveFails ==
    (pc = "returned" /\ store0 = <<token0>> /\ \A i \in 1..Len(Saves) : Saves[i].ok)
        => store = <<token>>

\* C25: a call has refreshed and saved, and memory and store hold the new
\* credential.
C25_ReplacedTogetherReached ==
    /\ pc = "returned"
    /\ store0 = <<token0>>
    /\ Len(Saves) = 1 /\ Saves[1].ok
    /\ token # token0
    /\ store = <<token>>

\* A step that overwrites a persisted credential holding a refresh token by
\* one whose refresh token is empty.
C26_Emptied ==
    /\ store # <<>> /\ store[1].RefreshToken # ""
    /\ store' # <<>> /\ store'[1].RefreshToken = ""

\* C26: across any sequence of successful token refreshes, by the client on a
\* 401 or by `bb auth refresh`, a persisted credential that has a refresh token
\* is never overwritten by one whose refresh token is empty, even when the
\* token endpoint omits the refresh token in its answer.
C26_RefreshTokenNeverEmptied == [][~C26_Emptied]_vars

\* C26 witness: `bb auth refresh` found a credential with a refresh token, the
\* endpoint answered without one, and token.json now holds a credential
\* whose refresh token is empty.
C26_Witness ==
    /\ pc = "exited"
    /\ build = "client"
    /\ store0 # <<>> /\ store0[1].RefreshToken # ""
    /\ Len(Refreshes) = 1 /\ Refreshes[1].ok /\ Refreshes[1].grant.refresh = ""
    /\ Len(Saves) = 1 /\ Saves[1].ok
    /\ store # <<>> /\ store[1].RefreshToken = ""

\* C26 for the refresh done by the client, in the versions that keep the old
\* refresh token: it never empties the refresh token.
C26_ClientKeepsRefreshToken ==
    [][(pc = "refresh" /\ build # "unbuffered") => ~C26_Emptied]_vars

\* C26: the client of part_002:354-365 has emptied the refresh token.
C26_ClientEmptiedReached ==
    /\ pc \in {"retry", "done", "returned"}
    /\ build = "unbuffered"
    /\ store0 # <<>> /\ store0[1].RefreshToken # ""
    /\ Len(Saves) = 1 /\ Saves[1].ok
    /\ store # <<>> /\ store[1].RefreshToken = ""

\* The number of access tokens this call has obtained so far.
C27_Obtained == IF Refreshes # <<>> /\ Refreshes[1].ok THEN 1 ELSE 0

\* C27: over any sequence of calls on one client, every first attempt carries
\* the access token most recently obtained before the call, and a second
\* attempt the one obtained in the call, so that a replaced access token is
\* never sent again; once a call has refreshed, a later call answered 401 whose
\* client retains a refresh token refreshes, with the refresh token the client
\* retained last, which is the one the endpoint returned or, failing that, the
\* one used before.
C27_LaterCallsCarryLatestToken ==
    /\ issued = token0.AccessToken + C27_Obtained
    /\ token.AccessToken = issued
    /\ Https # <<>> => Https[1].req.auth.cred = token0.AccessToken
    /\ Len(Https) = 2 => Https[2].req.auth.cred = issued
    /\ \A i \in 1..Len(Refreshes) : Refreshes[i].used = token0.RefreshToken
    /\ C27_Obtained = 1 =>
           token.RefreshToken \in {Refreshes[1].grant.refresh, Refreshes[1].used, ""}
    /\ (/\ token0.AccessToken > 1
        /\ FirstStatus(StatusUnauthorized)
        /\ token0.RefreshToken # ""
        /\ pc \in {"retry", "done", "returned"})
       => Len(Refreshes) = 1

\* C27 witness: the second call on a client whose first call obtained access
\* token 2 and refresh token "R2": the first attempt carried token 2, was
\* answered 401, and the refresh used "R2" and obtained token 3, which the
\* second attempt carried.
C27_Witness ==
    /\ pc = "done"
    /\ calls = 1
    /\ token0.AccessToken = 2 /\ token0.RefreshToken = "R2"
    /\ Len(Https) = 2
    /\ Https[1].req.auth.cred = 2
    /\ Https[1].ok /\ Https[1].status = StatusUnauthorized
    /\ Len(Refreshes) = 1 /\ Refreshes[1].ok /\ Refreshes[1].used = "R2"
    /\ Https[2].req.auth.cred = 3

\* C27: a later call started with the refreshed credential although saving
\* it had failed and token.json holds the replaced one.
C27_AfterFailedSaveReached ==
    /\ pc = "done"
    /\ calls = 1
    /\ token0.AccessToken = 2
    /\ store # <<>> /\ store[1].AccessToken = 1
    /\ Https # <<>> /\ Https[1].req.auth.cred = 2

\* The first attempt of the call was answered 401 and doRequest has decided
\* what to do about it.
C28_Decided ==
    FirstStatus(StatusUnauthorized) /\ pc \in {"refresh", "retry", "done", "returned"}

\* The call went into refreshToken.
C28_RefreshAttempted ==
    \/ pc = "refresh"
    \/ Refreshes # <<>>
    \/ result.cause = "OAuth credentials not configured"

\* C28: the tag of the credential fixes the header scheme and the refresh
\* eligibility consistently, for every tag a stored credential can hold: a
\* credential without tag is treated as one tagged "oauth"; a credential whose
\* requests carry a Bearer header is refreshed on a 401 when it has a refresh
\* token; a credential whose requests carry Basic auth is never refreshed.
C28_TagFixesSchemeAndRefresh ==
    /\ (Https # <<>> /\ token0.AuthMethod \in {"", AuthMethodOAuth})
           => Https[1].req.auth.scheme = "Bearer"
    /\ (C28_Decided /\ Https[1].req.auth.scheme = "Bearer" /\ token0.RefreshToken # "")
           => C28_RefreshAttempted
    /\ (C28_Decided /\ Https[1].req.auth.scheme = "Basic")
           => ~C28_RefreshAttempted

\* C28 witness: in a version that reads the tag, a credential stored without
\* tag and with a refresh token was sent with a Bearer header, answered 401,
\* and the refresher was invoked with its refresh token.
C28_Witness ==
    /\ FirstStatus(StatusUnauthorized)
    /\ Https[1].req.auth.scheme = "Bearer"
    /\ build # "client"
    /\ token0.AuthMethod = "" /\ token0.RefreshToken = "R1"
    /\ Len(Refreshes) = 1 /\ Refreshes[1].used = "R1"

\* C28: a credential tagged "oauth" was sent with a Bearer header, answered
\* 401 and refreshed, in a version that reads the tag.
C28_OAuthRefreshedReached ==
    /\ pc = "done"
    /\ FirstStatus(StatusUnauthorized)
    /\ Https[1].req.auth.scheme = "Bearer"
    /\ build = "tagged"
    /\ token0.AuthMethod = AuthMethodOAuth
    /\ Len(Refreshes) = 1

\* C28: a credential tagged "token" was sent with Basic auth, answered 401
\* and not refreshed.
C28_BasicNotRefreshedReached ==
    /\ pc = "done"
    /\ FirstStatus(StatusUnauthorized)
    /\ Https[1].req.auth.scheme = "Basic"
    /\ build # "client"
    /\ token0.AuthMethod = AuthMethodToken
    /\ Len(Https) = 1 /\ Refreshes = <<>>

C29_Returned == utilOut.name = "Login" /\ utilOut.main = "returned"

\* A handler that can never send: Login has left its select, so nothing is
\* received any more, and the channel of the handler is full.
C29_BlockedForever(i) ==
    /\ utilOut.handlers[i].pc = "send"
    /\ utilOut.main \in {"shutdown", "returned"}
    /\ IF utilOut.handlers[i].kind = "code"
       THEN utilOut.codeCh # <<>> /\ utilOut.main = "shutdown"
       ELSE utilOut.errCh # <<>>

\* C29: Login always terminates: once the first request to /callback has been
\* handled or the timer has fired Login returns a token or an error, however
\* many further requests reach /callback before the server has shut down; no
\* handler stays blocked forever on codeCh or errCh and the deferred Shutdown
\* completes.
C29_LoginTerminates == <>C29_Returned

\* C29 witness: three requests carrying a code have reached /callback. Login
\* took the code of one and has exchanged it, the code of another fills
\* codeCh, the third handler is blocked sending, and Shutdown waits for it.
C29_Witness ==
    /\ utilOut.name = "Login"
    /\ utilOut.main = "shutdown" /\ utilOut.result = "token"
    /\ utilOut.server = "closing"
    /\ Len(utilOut.handlers) = 3
    /\ \E i \in 1..3 : C29_BlockedForever(i)

\* C29 as a state property: no handler is ever blocked for good.
C29_NoHandlerBlockedForever ==
    utilOut.name = "Login" =>
        \A i \in 1..Len(utilOut.handlers) : ~C29_BlockedForever(i)

\* C29 with at most two requests to /callback, the timer not firing: Login
\* returns.
C29_TerminatesUpToTwoRequests ==
    <>(\/ C29_Returned
       \/ utilOut.name = "Login" /\ Len(utilOut.handlers) > 2
       \/ utilOut.name = "Login" /\ utilOut.result = "timeout")

\* C29 with at most one request to /callback: Login returns, also when the
\* timer fires.
C29_TerminatesWithOneRequest ==
    <>(C29_Returned \/ (utilOut.name = "Login" /\ Len(utilOut.handlers) > 1))

\* C29: Login has returned a token although a second request had reached
\* /callback and left its code in codeCh.
C29_SecondRequestReached ==
    /\ C29_Returned
    /\ utilOut.result = "token"
    /\ Len(utilOut.handlers) = 2
    /\ utilOut.codeCh # <<>>

\* What may be true of a command run at any time: the goroutine finds room in
\* updateCh when it sends, one result at most is sent and received, the
\* result received is that of CheckForUpdate, a notice is printed only for a
\* result that is not nil, and PersistentPostRun does not return without it.
C30_Safe ==
    utilOut.name = "update" =>
        /\ utilOut.worker = "send" => Len(utilOut.updateCh) < 1
        /\ utilOut.sent <= 1 /\ Len(utilOut.received) <= 1
        /\ Len(utilOut.updateCh) + Len(utilOut.received) = utilOut.sent
        /\ Len(utilOut.received) = 1 =>
               /\ utilOut.worker = "done"
               /\ utilOut.received[1] =
                      CheckForUpdate(utilIn.version, utilIn.file, utilIn.answer).info
        /\ utilOut.printed => (Len(utilOut.received) = 1 /\ ~utilOut.received[1].nil)
        /\ (utilOut.main = "exit" /\ ~utilIn.runFails) => Len(utilOut.received) = 1

\* C30: the background update check hands over exactly one result per command
\* run without deadlock: the goroutine never blocks on its send to updateCh,
\* and PersistentPostRun receives that one result and returns once
\* CheckForUpdate has returned, printing a notice only when the result is not
\* nil.
C30_OneResultHandedOver ==
    /\ []C30_Safe
    /\ (utilOut.name = "update" /\ utilOut.main = "postrun")
           ~> (utilOut.name = "update" /\ utilOut.main = "exit"
               /\ Len(utilOut.received) = 1)

\* C30 witness: CheckForUpdate found version 2 for version 1, the goroutine
\* sent it, PersistentPostRun received it, printed the notice and returned.
C30_Witness ==
    /\ utilOut.name = "update"
    /\ utilOut.main = "exit" /\ utilOut.worker = "done"
    /\ utilOut.sent = 1
    /\ utilOut.received = <<UpdateInfo(<<"1">>, <<"2">>)>>
    /\ utilOut.updateCh = <<>>
    /\ utilOut.printed

\* C30: PersistentPostRun is waiting on the empty channel while
\* CheckForUpdate has not returned yet.
C30_WaitingReached ==
    /\ utilOut.name = "update"
    /\ utilOut.main = "postrun" /\ utilOut.worker = "check"
    /\ utilOut.updateCh = <<>>

\* C30: the command failed, PersistentPostRun was not run and the result
\* stayed in the channel.
C30_NotReceivedReached ==
    /\ utilOut.name = "update"
    /\ utilOut.main = "exit" /\ utilOut.worker = "done"
    /\ Len(utilOut.updateCh) = 1 /\ utilOut.received = <<>>

====
